---- MODULE Spec2Model ----
(***************************************************************************)
(* A model of the recipe-management backend (backend/app): the database    *)
(* tables (users, recipes, categories, tags, recipe_tags), the backup      *)
(* export/import service with its conflict strategies, the cookie/JWT      *)
(* authentication dependencies and the admin-only routers.                 *)
(*                                                                         *)
(* Conventions.  Optional[T] is a sequence of length at most one: None is  *)
(* <<>> and a present value x is <<x>>.  UUID primary keys are fresh       *)
(* numbers drawn from the counter nextId; rows of a table are records in a *)
(* set.  Strings are TLA+ strings, so f"{base} ({n})" is a real            *)
(* concatenation.  A Python exception leaving a function is the field      *)
(* raised (None, or the message) of the value the operator returns.        *)
(***************************************************************************)
EXTENDS Integers, Sequences, FiniteSets, TLC

VARIABLES
    users,       \* table users: rows [id, username, email, hashed_password, role]
    recipes,     \* table recipes (+ recipe_tags as the field tags, a set of tag ids)
    categories,  \* table categories: rows [id, name, description]
    tags,        \* table tags: rows [id, name]
    settings,    \* table app_settings: rows [key, value, is_encrypted]
    ai_usage_logs, \* table ai_usage_logs: rows [id, user_id, provider, ...]
    nextId,      \* source of fresh primary keys (uuid.uuid4)
    served,      \* number of requests RequestLoggingMiddleware has seen
    imp,         \* BackupService.import_recipes in progress: its locals and loop index
    req,         \* the HTTP request served last, with the database it found
    resp,        \* the HTTP response to it (None while it is being served)
    tasks        \* coroutines and requests in flight side by side: locals and position

vars == <<users, recipes, categories, tags, settings, ai_usage_logs, nextId, served,
          imp, req, resp, tasks>>

--------------------------------------------------------------------------
(* Optional values and small helpers                                       *)

None == <<>>
\* No coroutine and no request is in flight.
NoTasks == <<>>
Some(x) == <<x>>
IsNone(o) == o = <<>>
Val(o) == o[1]
\* Python truthiness of an Optional[str]: neither None nor the empty string
Truthy(o) == o # <<>> /\ o[1] # ""

Range(s) == {s[i] : i \in 1..Len(s)}

\* str.endswith
EndsWith(s, suffix) ==
    /\ Len(s) >= Len(suffix)
    /\ SubSeq(s, Len(s) - Len(suffix) + 1, Len(s)) = suffix

\* The ids of a set of rows in insertion order (ids grow with insertion).
RECURSIVE SortedIds(_)
SortedIds(S) ==
    IF S = {} THEN <<>>
    ELSE LET m == CHOOSE x \in S : \A y \in S : x <= y
         IN  <<m>> \o SortedIds(S \ {m})

--------------------------------------------------------------------------
(* Enumerations                                                            *)

UserRole == {"admin", "standard"}
RecipeComplexity == {"very_easy", "easy", "medium", "hard", "very_hard"}
ConflictStrategy == {"skip", "replace", "rename"}

--------------------------------------------------------------------------
(* Bounds and input domains                                                *)

\* Longest backup file (number of records) an import request carries.
MaxRecords == 2

\* Titles that occur in backup files; "A (2)", "A (3)" ... arise by renaming.
BackupTitles == {"A", "B"}

\* The recipe fields that are plain data, in three versions: what the seeded
\* recipes hold, a backup record with every field filled in, and a backup
\* record with every optional field absent.
StoredContent ==
    [description       |-> Some("Test description"),
     ingredients       |-> << [name |-> "Salt", quantity |-> Some("1"),
                               unit |-> Some("tsp"), notes |-> None] >>,
     instructions      |-> << [step_number |-> 1, text |-> "Mix well"] >>,
     prep_time_minutes |-> Some(10),
     cook_time_minutes |-> Some(20),
     servings          |-> Some(4),
     notes             |-> Some("Family recipe"),
     special_equipment |-> Some(<<"Oven">>),
     source_author     |-> Some("Grandma"),
     source_url        |-> Some("https://example.com/old")]

FullContent ==
    [description       |-> Some("Imported description"),
     ingredients       |-> << [name |-> "Flour", quantity |-> Some("2"),
                               unit |-> Some("cups"), notes |-> None] >>,
     instructions      |-> << [step_number |-> 1, text |-> "Mix ingredients"] >>,
     prep_time_minutes |-> Some(15),
     cook_time_minutes |-> Some(30),
     servings          |-> Some(6),
     notes             |-> Some("Some notes"),
     special_equipment |-> Some(<<"Mixer">>),
     source_author     |-> Some("Test Chef"),
     source_url        |-> Some("https://example.com/recipe")]

BareContent ==
    [description       |-> None,
     ingredients       |-> <<>>,
     instructions      |-> <<>>,
     prep_time_minutes |-> None,
     cook_time_minutes |-> None,
     servings          |-> None,
     notes             |-> None,
     special_equipment |-> None,
     source_author     |-> None,
     source_url        |-> None]

ContentFields == DOMAIN StoredContent

\* schemas/backup_schemas.py BackupRecipe
MkBackupRecipe(title, content, complexity, category_name, tag_names) ==
    [title             |-> title,
     description       |-> content.description,
     ingredients       |-> content.ingredients,
     instructions      |-> content.instructions,
     prep_time_minutes |-> content.prep_time_minutes,
     cook_time_minutes |-> content.cook_time_minutes,
     servings          |-> content.servings,
     notes             |-> content.notes,
     complexity        |-> complexity,
     special_equipment |-> content.special_equipment,
     source_author     |-> content.source_author,
     source_url        |-> content.source_url,
     category_name     |-> category_name,
     tag_names         |-> tag_names,
     original_author   |-> "original_user"]

\* A record's data and complexity: a full record of medium complexity, a bare
\* record without complexity, a bare record whose complexity is no enum value.
BackupBodies ==
    { <<FullContent, Some("medium")>>,
      <<BareContent, None>>,
      <<BareContent, Some("invalid_complexity")>> }

\* A record's category name and tag names.
BackupLinks ==
    { <<None, <<>> >>,
      <<Some("Desserts"), <<"sweet", "quick", "quick">> >> }

BackupRecipes ==
    { MkBackupRecipe(t, b[1], b[2], l[1], l[2]) :
        t \in BackupTitles, b \in BackupBodies, l \in BackupLinks }

SeqsUpTo(S, n) == UNION { [1..k -> S] : k \in 0..n }

\* json.loads of an uploaded file's bytes gives a BackupExport document, a
\* JSON document of another shape, or fails.
BackupExports ==
    { [metadata |-> [format_version |-> "1.0", recipe_count |-> Len(rs)],
       recipes  |-> rs] : rs \in SeqsUpTo(BackupRecipes, MaxRecords) }
WrongShape == [wrong |-> "structure"]
\* The bytes of an upload: json is None when they are no JSON text, else the
\* document they encode.
NotJson == [json |-> None]
FileContents == {NotJson} \cup { [json |-> Some(doc)] : doc \in BackupExports \cup {WrongShape} }
FileNames == {None, Some("backup.json"), Some("backup.txt")}

SelectedTitles == {None, Some(<<"A", "C">>)}

--------------------------------------------------------------------------
(* services/backup_service.py                                              *)
(* The operators work on a database value d (the tables and nextId as     *)
(* fields), the session's view of the tables: every write is flushed, so  *)
(* later queries of the same request see it.                              *)

\* Query.first() on a set of matching rows: None, or any one of the rows
\* (the queries give no ORDER BY).
First(rows) == IF rows = {} THEN {None} ELSE {Some(r) : r \in rows}

\* A faulty variant: total_in_file counts the selected records
new_import_result_counting_selected(total_in_file, total_selected) ==
    [total_in_file      |-> total_selected,
     total_selected     |-> total_selected,
     created            |-> 0,
     skipped            |-> 0,
     replaced           |-> 0,
     errors             |-> 0,
     categories_created |-> 0,
     tags_created       |-> 0,
     error_details      |-> <<>>]

\* ImportResult(...) as import_recipes constructs it
new_import_result(total_in_file, total_selected) ==
    [total_in_file      |-> total_in_file,
     total_selected     |-> total_selected,
     created            |-> 0,
     skipped            |-> 0,
     replaced           |-> 0,
     errors             |-> 0,
     categories_created |-> 0,
     tags_created       |-> 0,
     error_details      |-> <<>>]

\* A faulty variant: the lookup is left out: a category is created every time
create_category_always(d, name) ==
    [db |-> [d EXCEPT !.categories = @ \cup
                          {[id |-> d.nextId, name |-> name, description |-> None]},
                      !.nextId = @ + 1],
     id |-> d.nextId, created |-> TRUE]

\* Find existing category or create new one. Returns (id, was_created).
_get_or_create_category(d, name) ==
    LET category == {c \in d.categories : c.name = name}
    IN  IF category # {}
        THEN [db |-> d, id |-> (CHOOSE c \in category : TRUE).id, created |-> FALSE]
        ELSE [db |-> [d EXCEPT !.categories = @ \cup
                                   {[id |-> d.nextId, name |-> name, description |-> None]},
                               !.nextId = @ + 1],
              id |-> d.nextId, created |-> TRUE]

\* The for loop of _get_or_create_tags, from index i on.
RECURSIVE get_or_create_tags_loop(_, _, _, _, _)
get_or_create_tags_loop(d, names, i, tag_ids, created_count) ==
    IF i > Len(names)
    THEN [db |-> d, tag_ids |-> tag_ids, created_count |-> created_count]
    ELSE LET tag == {t \in d.tags : t.name = names[i]}
         IN  IF tag # {}
             THEN get_or_create_tags_loop(
                      d, names, i + 1,
                      Append(tag_ids, (CHOOSE t \in tag : TRUE).id), created_count)
             ELSE get_or_create_tags_loop(
                      [d EXCEPT !.tags = @ \cup {[id |-> d.nextId, name |-> names[i]]},
                                !.nextId = @ + 1],
                      names, i + 1, Append(tag_ids, d.nextId), created_count + 1)

\* Find existing tags or create new ones. Returns (ids, count_created).
_get_or_create_tags(d, names) ==
    IF names = <<>>
    THEN [db |-> d, tag_ids |-> <<>>, created_count |-> 0]
    ELSE get_or_create_tags_loop(d, names, 1, <<>>, 0)

\* RecipeComplexity(value): the enum member, or ValueError
RecipeComplexityOf(value) ==
    IF value \in RecipeComplexity
    THEN [raised |-> None, value |-> Some(value)]
    ELSE [raised |-> Some(value \o " is not a valid RecipeComplexity"), value |-> None]

\* BackupIngredient.model_dump() / BackupInstruction.model_dump()
ingredient_model_dump(ing) ==
    [name |-> ing.name, quantity |-> ing.quantity, unit |-> ing.unit, notes |-> ing.notes]
instruction_model_dump(inst) ==
    [step_number |-> inst.step_number, text |-> inst.text]

\* The part _create_recipe_from_backup and _update_recipe_from_backup share:
\* category and tags are got or created and counted first, then the
\* complexity string is converted (which may raise).
resolve_links(d, backup_recipe, result) ==
    LET converted(gc, gt, cx) ==
            [db          |-> gt.db,
             result      |-> [result EXCEPT
                                 !.categories_created = IF gc.created THEN @ + 1 ELSE @,
                                 !.tags_created = @ + gt.created_count],
             raised      |-> cx.raised,
             category_id |-> IF Truthy(backup_recipe.category_name)
                             THEN Some(gc.id) ELSE None,
             tag_ids     |-> gt.tag_ids,
             complexity  |-> cx.value]
        with_tags(gc) ==
            converted(gc, _get_or_create_tags(gc.db, backup_recipe.tag_names),
                      IF Truthy(backup_recipe.complexity)
                      THEN RecipeComplexityOf(Val(backup_recipe.complexity))
                      ELSE [raised |-> None, value |-> None])
    IN  with_tags(IF Truthy(backup_recipe.category_name)
                  THEN _get_or_create_category(d, Val(backup_recipe.category_name))
                  ELSE [db |-> d, id |-> 0, created |-> FALSE])

\* Tag.id.in_(tag_ids): the ids of the tag rows among tag_ids
tags_in(d, tag_ids) == {t.id : t \in {x \in d.tags : x.id \in Range(tag_ids)}}

\* Create a new recipe from backup data.
_create_recipe_from_backup(d, backup_recipe, user_id, result) ==
    LET Recipe(k) ==
            [id                |-> k.db.nextId,
             title             |-> backup_recipe.title,
             description       |-> backup_recipe.description,
             ingredients       |-> [i \in 1..Len(backup_recipe.ingredients) |->
                                       ingredient_model_dump(backup_recipe.ingredients[i])],
             instructions      |-> [i \in 1..Len(backup_recipe.instructions) |->
                                       instruction_model_dump(backup_recipe.instructions[i])],
             prep_time_minutes |-> backup_recipe.prep_time_minutes,
             cook_time_minutes |-> backup_recipe.cook_time_minutes,
             servings          |-> backup_recipe.servings,
             notes             |-> backup_recipe.notes,
             complexity        |-> k.complexity,
             special_equipment |-> backup_recipe.special_equipment,
             source_author     |-> backup_recipe.source_author,
             source_url        |-> backup_recipe.source_url,
             category_id       |-> k.category_id,
             user_id           |-> user_id,
             tags              |-> IF k.tag_ids # <<>> THEN tags_in(k.db, k.tag_ids) ELSE {}]
        add(k) ==
            IF k.raised # None
            THEN [db |-> k.db, result |-> k.result, raised |-> k.raised]
            ELSE [db |-> [k.db EXCEPT !.recipes = @ \cup {Recipe(k)}, !.nextId = @ + 1],
                  result |-> k.result, raised |-> None]
    IN  add(resolve_links(d, backup_recipe, result))

\* The assignments of _update_recipe_from_backup to the recipe row.
assign_from_backup(recipe, backup_recipe, category_id, complexity, tag_ids, user_id) ==
    [recipe EXCEPT
     !.description       = backup_recipe.description,
     !.ingredients       = [i \in 1..Len(backup_recipe.ingredients) |->
                               ingredient_model_dump(backup_recipe.ingredients[i])],
     !.instructions      = [i \in 1..Len(backup_recipe.instructions) |->
                               instruction_model_dump(backup_recipe.instructions[i])],
     !.prep_time_minutes = backup_recipe.prep_time_minutes,
     !.cook_time_minutes = backup_recipe.cook_time_minutes,
     !.servings          = backup_recipe.servings,
     !.notes             = backup_recipe.notes,
     !.complexity        = complexity,
     !.special_equipment = backup_recipe.special_equipment,
     !.source_author     = backup_recipe.source_author,
     !.source_url        = backup_recipe.source_url,
     !.category_id       = category_id,
     !.user_id           = user_id,
     !.tags              = tag_ids]

\* A faulty variant: the else branch that empties recipe.tags is left out
update_recipe_keeping_tags(d, recipe, backup_recipe, user_id, result) ==
    LET updated(k) ==
            assign_from_backup(
                recipe, backup_recipe, k.category_id, k.complexity,
                IF k.tag_ids # <<>> THEN tags_in(k.db, k.tag_ids) ELSE recipe.tags,
                user_id)
        update(k) ==
            IF k.raised # None
            THEN [db |-> k.db, result |-> k.result, raised |-> k.raised]
            ELSE [db |-> [k.db EXCEPT !.recipes = (@ \ {recipe}) \cup {updated(k)}],
                  result |-> k.result, raised |-> None]
    IN  update(resolve_links(d, backup_recipe, result))

\* Update an existing recipe with backup data.
_update_recipe_from_backup(d, recipe, backup_recipe, user_id, result) ==
    LET updated(k) ==
            assign_from_backup(
                recipe, backup_recipe, k.category_id, k.complexity,
                IF k.tag_ids # <<>> THEN tags_in(k.db, k.tag_ids) ELSE {},
                user_id)
        update(k) ==
            IF k.raised # None
            THEN [db |-> k.db, result |-> k.result, raised |-> k.raised]
            ELSE [db |-> [k.db EXCEPT !.recipes = (@ \ {recipe}) \cup {updated(k)}],
                  result |-> k.result, raised |-> None]
    IN  update(resolve_links(d, backup_recipe, result))

\* The while loop of _generate_unique_title, from counter on.
RECURSIVE generate_unique_title_loop(_, _, _)
generate_unique_title_loop(d, base_title, counter) ==
    LET new_title == base_title \o " (" \o ToString(counter) \o ")"
        existing  == {r \in d.recipes : r.title = new_title}
    IN  IF existing = {} THEN new_title
        ELSE generate_unique_title_loop(d, base_title, counter + 1)

\* A faulty variant: the counter starts at 1
generate_unique_title_from_one(d, base_title) ==
    generate_unique_title_loop(d, base_title, 1)

\* A faulty variant: the first candidate is taken without a look at the table
generate_unique_title_unchecked(d, base_title) == base_title \o " (2)"

\* Generate 'Title (2)', 'Title (3)' etc. for rename strategy.
_generate_unique_title(d, base_title) == generate_unique_title_loop(d, base_title, 2)

\* What the except clause of import_recipes does with a raised error.
record_error(out, backup_recipe) ==
    IF out.raised = None THEN out
    ELSE [out EXCEPT
          !.result = [@ EXCEPT !.errors = @ + 1,
                               !.error_details =
                                   Append(@, [title |-> backup_recipe.title,
                                              error |-> Val(out.raised)])],
          !.raised = None]

\* result.created += 1 and result.replaced += 1: reached when the call
\* before them has not raised.
count_created(out) ==
    IF out.raised # None THEN out
    ELSE [out EXCEPT !.result = [@ EXCEPT !.created = @ + 1]]
\* A faulty variant: a replaced record is counted as created as well
count_replaced_and_created(out) ==
    IF out.raised # None THEN out
    ELSE [out EXCEPT !.result = [@ EXCEPT !.replaced = @ + 1, !.created = @ + 1]]
count_replaced(out) ==
    IF out.raised # None THEN out
    ELSE [out EXCEPT !.result = [@ EXCEPT !.replaced = @ + 1]]

\* The branches of one loop iteration of import_recipes.  existing is the row
\* the title lookup's first() returned.
\* A faulty variant: the continue of the skip branch is left out: the record is
\* counted as skipped and created all the same
import_skip_without_continue(d, result, existing, backup_recipe, importing_user_id) ==
    count_created(_create_recipe_from_backup(
                      d, backup_recipe, importing_user_id,
                      [result EXCEPT !.skipped = @ + 1]))

\* conflict_strategy == skip
import_skip(d, result, existing, backup_recipe, importing_user_id) ==
    [db |-> d, result |-> [result EXCEPT !.skipped = @ + 1], raised |-> None]

\* conflict_strategy == replace
import_replace(d, result, existing, backup_recipe, importing_user_id) ==
    count_replaced(_update_recipe_from_backup(
                       d, existing, backup_recipe, importing_user_id, result))

\* conflict_strategy == rename
import_rename(d, result, existing, backup_recipe, importing_user_id) ==
    LET new_title == _generate_unique_title(d, backup_recipe.title)
        backup_recipe_copy == [backup_recipe EXCEPT !.title = new_title]
    IN  count_created(_create_recipe_from_backup(
                          d, backup_recipe_copy, importing_user_id, result))

\* no recipe has the title
import_new(d, result, backup_recipe, importing_user_id) ==
    count_created(_create_recipe_from_backup(d, backup_recipe, importing_user_id, result))

\* One iteration of the for loop of import_recipes: the try block, then the
\* except clause.
import_record(d, result, backup_recipe, existing, importing_user_id, conflict_strategy) ==
    LET out ==
            IF existing # None /\ conflict_strategy = "skip"
            THEN import_skip(d, result, Val(existing), backup_recipe, importing_user_id)
            ELSE IF existing # None /\ conflict_strategy = "replace"
            THEN import_replace(d, result, Val(existing), backup_recipe, importing_user_id)
            ELSE IF existing # None /\ conflict_strategy = "rename"
            THEN import_rename(d, result, Val(existing), backup_recipe, importing_user_id)
            ELSE import_new(d, result, backup_recipe, importing_user_id)
    IN  record_error(out, backup_recipe)

\* The records import_recipes goes through: all of the file, or those whose
\* title is one of selected_titles.
select_recipes(backup_recipes, selected_titles) ==
    IF selected_titles = None THEN backup_recipes
    ELSE SelectSeq(backup_recipes, LAMBDA r : r.title \in Range(Val(selected_titles)))

\* BackupRecipe(...) as export_all_recipes builds it from a recipe row
\* A faulty variant: only the name of an ingredient is taken over
BackupIngredient_name_only(ing) ==
    [name |-> ing.name, quantity |-> None, unit |-> None, notes |-> None]

\* BackupIngredient(**ing) / BackupInstruction(**inst): the fields of the
\* stored JSON object by their names, None for an optional one it lacks
BackupIngredient(ing) ==
    [name     |-> ing.name,
     quantity |-> IF "quantity" \in DOMAIN ing THEN ing.quantity ELSE None,
     unit     |-> IF "unit" \in DOMAIN ing THEN ing.unit ELSE None,
     notes    |-> IF "notes" \in DOMAIN ing THEN ing.notes ELSE None]
BackupInstruction(inst) == [step_number |-> inst.step_number, text |-> inst.text]

backup_recipe_of(d, us, recipe) ==
    LET category == {c \in d.categories : Some(c.id) = recipe.category_id}
        user     == CHOOSE u \in us : u.id = recipe.user_id
        tag_ids  == SortedIds(recipe.tags)
    IN  [title             |-> recipe.title,
         description       |-> recipe.description,
         ingredients       |-> [i \in 1..Len(recipe.ingredients) |->
                                   BackupIngredient(recipe.ingredients[i])],
         instructions      |-> [i \in 1..Len(recipe.instructions) |->
                                   BackupInstruction(recipe.instructions[i])],
         prep_time_minutes |-> recipe.prep_time_minutes,
         cook_time_minutes |-> recipe.cook_time_minutes,
         servings          |-> recipe.servings,
         notes             |-> recipe.notes,
         complexity        |-> recipe.complexity,
         special_equipment |-> recipe.special_equipment,
         source_author     |-> recipe.source_author,
         source_url        |-> recipe.source_url,
         category_name     |-> IF category # {}
                               THEN Some((CHOOSE c \in category : TRUE).name)
                               ELSE None,
         tag_names         |-> [i \in 1..Len(tag_ids) |->
                                   (CHOOSE t \in d.tags : t.id = tag_ids[i]).name],
         original_author   |-> user.username]

\* A faulty variant: recipe_count counts the recipes of the table
export_rows_counting_table(d, us, rows) ==
    LET ids == SortedIds({r.id : r \in rows})
        backup_recipes ==
            [i \in 1..Len(ids) |->
                backup_recipe_of(d, us, CHOOSE r \in rows : r.id = ids[i])]
    IN  [metadata |-> [format_version |-> "1.0", recipe_count |-> Cardinality(d.recipes)],
         recipes  |-> backup_recipes]

\* The export of the recipe rows rows (rows come back in insertion order).
export_rows(d, us, rows) ==
    LET ids == SortedIds({r.id : r \in rows})
        backup_recipes ==
            [i \in 1..Len(ids) |->
                backup_recipe_of(d, us, CHOOSE r \in rows : r.id = ids[i])]
    IN  [metadata |-> [format_version |-> "1.0", recipe_count |-> Len(backup_recipes)],
         recipes  |-> backup_recipes]

\* Export all recipes with relationships to BackupExport format.
export_all_recipes(d, us) == export_rows(d, us, d.recipes)

\* Export the recipes whose id is in recipe_ids, or all recipes without it.
export_recipes(d, us, recipe_ids) ==
    IF recipe_ids = None THEN export_all_recipes(d, us)
    ELSE export_rows(d, us, {r \in d.recipes : r.id \in Range(Val(recipe_ids))})

--------------------------------------------------------------------------
(* services/auth.py and dependencies.py                                    *)

\* A JWT as a client presents it: verifies is whether jwt.decode accepts its
\* signature and expiry; type and sub are its claims. An access token the
\* server has issued carries a role claim as well.
Token(type, sub, verifies) == [type |-> type, sub |-> sub, verifies |-> verifies]

HTTPException(status_code, detail) == [status_code |-> status_code, detail |-> detail]

\* AuthService.decode_token: the payload, or None on JWTError
decode_token(token) ==
    IF token.verifies THEN Some([claim \in DOMAIN token \ {"verifies"} |-> token[claim]])
    ELSE None

get_user_by_id(us, user_id) == First({u \in us : u.id = user_id})

\* A faulty variant: a user that was in the table when the token was issued
\* is still returned after the row is gone
get_current_user_of_issue_time(access_token, us) ==
    IF access_token = None
    THEN [raised |-> Some(HTTPException(401, "Not authenticated")), user |-> None]
    ELSE IF decode_token(Val(access_token)) = None
    THEN [raised |-> Some(HTTPException(401, "Invalid or expired token")), user |-> None]
    ELSE IF Val(access_token).type # "access"
    THEN [raised |-> Some(HTTPException(401, "Invalid token type")), user |-> None]
    ELSE IF Val(access_token).sub = None
    THEN [raised |-> Some(HTTPException(401, "Invalid token payload")), user |-> None]
    ELSE IF \E u \in us : u.id = Val(Val(access_token).sub)
    THEN [raised |-> None,
          user |-> Some(CHOOSE u \in us : u.id = Val(Val(access_token).sub))]
    ELSE IF Val(Val(access_token).sub) = 2
    THEN [raised |-> None,
          user |-> Some([id |-> 2, username |-> "cook", email |-> "cook@example.com",
                         hashed_password |-> "bcrypt:cook-secret",
                         role |-> "standard"])]
    ELSE [raised |-> Some(HTTPException(401, "User not found")), user |-> None]

get_current_user(access_token, us) ==
    IF access_token = None
    THEN [raised |-> Some(HTTPException(401, "Not authenticated")), user |-> None]
    ELSE LET payload == decode_token(Val(access_token))
         IN  IF payload = None
             THEN [raised |-> Some(HTTPException(401, "Invalid or expired token")),
                   user |-> None]
             ELSE IF Val(payload).type # "access"
             THEN [raised |-> Some(HTTPException(401, "Invalid token type")), user |-> None]
             ELSE IF Val(payload).sub = None
             THEN [raised |-> Some(HTTPException(401, "Invalid token payload")),
                   user |-> None]
             ELSE LET user == CHOOSE u \in get_user_by_id(us, Val(Val(payload).sub)) : TRUE
                  IN  IF user = None
                      THEN [raised |-> Some(HTTPException(401, "User not found")),
                            user |-> None]
                      ELSE [raised |-> None, user |-> user]

\* get_current_user_optional: the user, or None where get_current_user raises
get_current_user_optional(access_token, us) ==
    IF access_token = None THEN None
    ELSE LET payload == decode_token(Val(access_token))
         IN  IF payload = None \/ Val(payload).type # "access" THEN None
             ELSE IF Val(payload).sub = None THEN None
             ELSE CHOOSE u \in get_user_by_id(us, Val(Val(payload).sub)) : TRUE

\* A faulty variant: the role is not looked at
require_admin_any_role(access_token, us) == get_current_user(access_token, us)

\* A faulty variant: the role is taken from the token's role claim where it
\* has one
require_admin_by_role_claim(access_token, us) ==
    LET current_user == get_current_user(access_token, us)
        role == IF "role" \in DOMAIN Val(access_token) THEN Val(access_token).role
                ELSE Val(current_user.user).role
    IN  IF current_user.raised # None THEN current_user
        ELSE IF role # "admin"
        THEN [raised |-> Some(HTTPException(403, "Admin access required")), user |-> None]
        ELSE current_user

require_admin(access_token, us) ==
    LET current_user == get_current_user(access_token, us)
    IN  IF current_user.raised # None THEN current_user
        ELSE IF Val(current_user.user).role # "admin"
        THEN [raised |-> Some(HTTPException(403, "Admin access required")), user |-> None]
        ELSE current_user

\* AuthService.hash_password: the bcrypt hash of the password
hash_password(password) == "bcrypt:" \o password

get_user_by_username(us, username) == First({u \in us : u.username = username})
get_user_by_email(us, email) == First({u \in us : u.email = email})

\* A faulty variant: the role is admin while fewer than two users exist
create_user_admin_below_two(d, username, email, password) ==
    LET user_count == Cardinality(d.users)
        role == IF user_count < 2 THEN "admin" ELSE "standard"
        user == [id |-> d.nextId, username |-> username, email |-> email,
                 hashed_password |-> hash_password(password), role |-> role]
    IN  [db |-> [d EXCEPT !.users = @ \cup {user}, !.nextId = @ + 1], user |-> user]

\* AuthService.create_user: the first user of the table becomes admin
create_user(d, username, email, password) ==
    LET user_count == Cardinality(d.users)
        role == IF user_count = 0 THEN "admin" ELSE "standard"
        user == [id |-> d.nextId, username |-> username, email |-> email,
                 hashed_password |-> hash_password(password), role |-> role]
    IN  [db |-> [d EXCEPT !.users = @ \cup {user}, !.nextId = @ + 1], user |-> user]

--------------------------------------------------------------------------
(* The backup endpoints (routers/backup_router.py) on a populated database *)

DB == [users |-> users, recipes |-> recipes, categories |-> categories, tags |-> tags,
       settings |-> settings, ai_usage_logs |-> ai_usage_logs, nextId |-> nextId]

\* A recipe row holding StoredContent.
StoredRecipe(id, title, category_id, tag_ids, user_id) ==
    [id                |-> id,
     title             |-> title,
     description       |-> StoredContent.description,
     ingredients       |-> StoredContent.ingredients,
     instructions      |-> StoredContent.instructions,
     prep_time_minutes |-> StoredContent.prep_time_minutes,
     cook_time_minutes |-> StoredContent.cook_time_minutes,
     servings          |-> StoredContent.servings,
     notes             |-> StoredContent.notes,
     complexity        |-> Some("easy"),
     special_equipment |-> StoredContent.special_equipment,
     source_author     |-> StoredContent.source_author,
     source_url        |-> StoredContent.source_url,
     category_id       |-> category_id,
     user_id           |-> user_id,
     tags              |-> tag_ids]

\* The first registered user (admin) and a second one (standard).
SeedUsers ==
    { [id |-> 1, username |-> "admin", email |-> "admin@example.com",
       hashed_password |-> hash_password("admin-secret"), role |-> "admin"],
      [id |-> 2, username |-> "cook", email |-> "cook@example.com",
       hashed_password |-> hash_password("cook-secret"), role |-> "standard"] }

\* Databases that earlier requests have left: no recipe; a recipe "A" of the
\* standard user with a category and a tag, and a recipe "A (3)"; the recipe
\* "A" and a second recipe titled "A" (titles are not unique in the table).
SeedRecipeA == StoredRecipe(5, "A", Some(3), {4}, 2)
SeedDatabases ==
    LET cats == {[id |-> 3, name |-> "Desserts", description |-> Some("Sweet things")]}
        tgs  == {[id |-> 4, name |-> "sweet"]}
    IN  { [recipes |-> {}, categories |-> {}, tags |-> {}, nextId |-> 3],
          [recipes |-> {SeedRecipeA, StoredRecipe(6, "A (3)", None, {}, 2)},
           categories |-> cats, tags |-> tgs, nextId |-> 7],
          [recipes |-> {SeedRecipeA, StoredRecipe(6, "A", None, {}, 1)},
           categories |-> cats, tags |-> tgs, nextId |-> 7] }

\* The access_token cookies the backup requests are made with: none, the
\* admin's access token, the standard user's access token.
BackupCookies ==
    {None, Some(Token("access", Some(1), TRUE)), Some(Token("access", Some(2), TRUE))}

\* No import is running.
IdleImport ==
    [pc |-> "idle", conflict_strategy |-> "skip", importing_user_id |-> 0,
     backup_data |-> <<>>, selected_titles |-> None, recipes_to_import |-> <<>>,
     i |-> 1, result |-> new_import_result(0, 0)]

\* No request has been made.
NoRequest == [op |-> "none"]

Init ==
    /\ users = SeedUsers
    /\ \E d \in SeedDatabases :
          /\ recipes = d.recipes
          /\ categories = d.categories
          /\ tags = d.tags
          /\ nextId = d.nextId
    /\ settings = {}
    /\ ai_usage_logs = {}
    /\ served = 0
    /\ imp = IdleImport
    /\ req = NoRequest
    /\ resp = None
    /\ tasks = NoTasks

Response(status_code, detail, body) ==
    Some([status_code |-> status_code, detail |-> detail, body |-> body])
ErrorResponse(exc) == Response(exc.status_code, exc.detail, None)

\* BackupExport.model_validate(data): whether data has the BackupExport shape
model_validate_ok(data) == {"metadata", "recipes"} \subseteq DOMAIN data

\* A faulty variant: the content is parsed before the file name is looked at
check_upload_parse_first(filename, content) ==
    IF content.json = None
    THEN Some(HTTPException(422, "Invalid JSON"))
    ELSE IF filename = None \/ ~EndsWith(Val(filename), ".json")
    THEN Some(HTTPException(400, "File must be a JSON file"))
    ELSE IF ~model_validate_ok(Val(content.json))
    THEN Some(HTTPException(422, "Invalid backup format"))
    ELSE None

\* The three checks of the upload, in the handler's order: the exception the
\* first failing one raises, or None.
check_upload(filename, content) ==
    IF filename = None \/ ~EndsWith(Val(filename), ".json")
    THEN Some(HTTPException(400, "File must be a JSON file"))
    ELSE IF content.json = None
    THEN Some(HTTPException(422, "Invalid JSON"))
    ELSE IF ~model_validate_ok(Val(content.json))
    THEN Some(HTTPException(422, "Invalid backup format"))
    ELSE None

\* POST /api/backup/import up to the first loop iteration: the admin check,
\* the three upload checks, then import_recipes selects the records and
\* constructs its ImportResult.
import_recipes(access_token, filename, content, conflict_strategy, selected_titles) ==
    LET auth == require_admin(access_token, users)
        done == [IdleImport EXCEPT !.pc = "done"]
    IN  /\ req' = [op |-> "import_recipes", access_token |-> access_token,
                   filename |-> filename, content |-> content, before |-> DB]
        /\ served' = served + 1
        /\ UNCHANGED <<users, recipes, categories, tags, settings, ai_usage_logs, nextId,
                       tasks>>
        /\ IF auth.raised # None
           THEN resp' = ErrorResponse(Val(auth.raised)) /\ imp' = done
           ELSE IF check_upload(filename, content) # None
           THEN resp' = ErrorResponse(Val(check_upload(filename, content))) /\ imp' = done
           ELSE LET backup_data == Val(content.json)
                    recipes_to_import == select_recipes(backup_data.recipes, selected_titles)
                IN  /\ resp' = None
                    /\ imp' = [pc                |-> "importing",
                               conflict_strategy |-> conflict_strategy,
                               importing_user_id |-> Val(auth.user).id,
                               backup_data       |-> backup_data,
                               selected_titles   |-> selected_titles,
                               recipes_to_import |-> recipes_to_import,
                               i                 |-> 1,
                               result            |-> new_import_result(
                                                        Len(backup_data.recipes),
                                                        Len(recipes_to_import))]

ImportRequest ==
    /\ imp.pc = "idle"
    /\ \E access_token \in BackupCookies, filename \in FileNames, content \in FileContents,
          conflict_strategy \in ConflictStrategy, selected_titles \in SelectedTitles :
           import_recipes(access_token, filename, content, conflict_strategy, selected_titles)

\* One iteration of the for loop of BackupService.import_recipes.
ImportRecord ==
    /\ imp.pc = "importing"
    /\ imp.i <= Len(imp.recipes_to_import)
    /\ LET backup_recipe == imp.recipes_to_import[imp.i]
           flushed(out) ==
               /\ recipes' = out.db.recipes
               /\ categories' = out.db.categories
               /\ tags' = out.db.tags
               /\ nextId' = out.db.nextId
               /\ imp' = [imp EXCEPT !.i = @ + 1, !.result = out.result]
       IN  \E existing \in First({r \in recipes : r.title = backup_recipe.title}) :
              flushed(import_record(DB, imp.result, backup_recipe, existing,
                                    imp.importing_user_id, imp.conflict_strategy))
    /\ UNCHANGED <<users, settings, ai_usage_logs, served, req, resp, tasks>>

\* The loop is over: db.commit() and the result is the response.
ImportCommit ==
    /\ imp.pc = "importing"
    /\ imp.i > Len(imp.recipes_to_import)
    /\ imp' = [imp EXCEPT !.pc = "done"]
    /\ resp' = Response(200, "", imp.result)
    /\ UNCHANGED <<users, recipes, categories, tags, settings, ai_usage_logs, nextId,
                   served, req, tasks>>

Next == ImportRequest \/ ImportRecord \/ ImportCommit

Spec == Init /\ [][Next]_vars

\* The whole for loop of import_recipes from record i on, on a database
\* whose recipe titles are distinct (first() then has one answer).  raised_at
\* collects the indices of the records whose processing raised an error.
RECURSIVE import_all(_, _, _, _, _, _, _)
import_all(d, result, backup_recipes, i, importing_user_id, conflict_strategy, raised_at) ==
    IF i > Len(backup_recipes)
    THEN [db |-> d, result |-> result, raised_at |-> raised_at]
    ELSE LET backup_recipe == backup_recipes[i]
             existing == CHOOSE e \in First({r \in d.recipes :
                                               r.title = backup_recipe.title}) : TRUE
             out == import_record(d, result, backup_recipe, existing,
                                  importing_user_id, conflict_strategy)
         IN  import_all(out.db, out.result, backup_recipes, i + 1,
                        importing_user_id, conflict_strategy,
                        IF out.result.errors > result.errors
                        THEN raised_at \cup {i} ELSE raised_at)

--------------------------------------------------------------------------
(* The API as a whole: every request is served to the end before the next  *)
(* one starts (the import alone is served record by record).               *)

MaxRequests == 2

\* The access tokens that logins have set as cookies and the clients still
\* hold.
IssuedCookies ==
    UNION {client.access_tokens : client \in {t \in Range(tasks) : t.name = "clients"}}

\* The access_token cookies a client can present: none; a token that does
\* not verify; a refresh token; an access token without subject; access
\* tokens of the users of the table, of the users that were in it at the
\* start (a deleted user's token stays with the client) and of a user that
\* never was in it; the cookies that logins have set.
ApiCookies ==
    {None, Some(Token("access", Some(1), FALSE)), Some(Token("refresh", Some(1), TRUE)),
     Some(Token("access", None, TRUE))}
    \cup {Some(Token("access", Some(id), TRUE)) :
             id \in {u.id : u \in users \cup SeedUsers} \cup {0}}
    \cup IssuedCookies

\* The refresh_token cookies a client can present: the same, and a refresh
\* token without subject.
RefreshCookies == ApiCookies \cup {Some(Token("refresh", None, TRUE))}

\* Ids a path parameter can carry: those of the rows, and one of no row.
IdsOf(rows) == {r.id : r \in rows} \cup {0}

\* db.commit(): the tables take the values of the session's view d
Commit(d) ==
    /\ users' = d.users
    /\ recipes' = d.recipes
    /\ categories' = d.categories
    /\ tags' = d.tags
    /\ settings' = d.settings
    /\ ai_usage_logs' = d.ai_usage_logs
    /\ nextId' = d.nextId

\* The request op has been served with response: args are the parameters
\* the handler's body has read (None when it did not run).
Answer(op, access_token, args, response) ==
    /\ req' = [op |-> op, access_token |-> access_token, args |-> args, before |-> DB]
    /\ resp' = response
    /\ served' = served + 1
    /\ imp' = IdleImport
    /\ tasks' = tasks

\* A dependency raised exc: the body does not run.
Refuse(op, access_token, exc) ==
    Answer(op, access_token, None, ErrorResponse(exc)) /\ Commit(DB)

\* The body raised exc before any commit: the session is discarded.
Raise(op, access_token, args, exc) ==
    Answer(op, access_token, Some(args), ErrorResponse(exc)) /\ Commit(DB)

\* The body returned: status_code and body of the response, d committed.
Return(op, access_token, args, status_code, body, d) ==
    Answer(op, access_token, Some(args), Response(status_code, "", body)) /\ Commit(d)

\* A request can be taken up.
CanServe == imp.pc # "importing" /\ served < MaxRequests

\* rows as a list, latest first (order_by(created_at.desc()); ids grow with
\* the time of creation).
RECURSIVE LatestFirst(_)
LatestFirst(rows) ==
    IF rows = {} THEN <<>>
    ELSE LET r == CHOOSE x \in rows : \A y \in rows : y.id <= x.id
         IN  <<r>> \o LatestFirst(rows \ {r})

--------------------------------------------------------------------------
(* routers/auth.py, routers/users.py                                       *)

UserCreates ==
    { [username |-> "dana", email |-> "dana@example.com", password |-> "dana-secret"],
      [username |-> "cook", email |-> "chef@example.com", password |-> "chef-secret"],
      [username |-> "chef", email |-> "cook@example.com", password |-> "chef-secret"],
      [username |-> "erin", email |-> "dana@example.com", password |-> "erin-secret"] }

UserUpdates ==
    { [username |-> Some("dana"), email |-> None, password |-> None, role |-> None],
      [username |-> None, email |-> Some("cook@example.com"), password |-> None,
       role |-> None],
      [username |-> None, email |-> None, password |-> Some("new-secret"),
       role |-> Some("admin")],
      [username |-> None, email |-> None, password |-> None, role |-> Some("standard")] }

\* POST /api/auth/register
register(user_data) ==
    IF get_user_by_username(users, user_data.username) # {None}
    THEN Raise("register", None, user_data, HTTPException(400, "Username already registered"))
    ELSE IF get_user_by_email(users, user_data.email) # {None}
    THEN Raise("register", None, user_data, HTTPException(400, "Email already registered"))
    ELSE LET out == create_user(DB, user_data.username, user_data.email,
                                user_data.password)
         IN  Return("register", None, user_data, 201,
                    [message |-> "User registered successfully", role |-> out.user.role],
                    out.db)

\* GET /api/users
list_users(access_token) ==
    LET current_user == require_admin(access_token, users)
    IN  IF current_user.raised # None
        THEN Refuse("list_users", access_token, Val(current_user.raised))
        ELSE Return("list_users", access_token, <<>>, 200, LatestFirst(users), DB)

\* GET /api/users/{user_id}
get_user(access_token, user_id) ==
    LET current_user == require_admin(access_token, users)
    IN  IF current_user.raised # None
        THEN Refuse("get_user", access_token, Val(current_user.raised))
        ELSE \E user \in First({u \in users : u.id = user_id}) :
                IF user = None
                THEN Raise("get_user", access_token, user_id,
                           HTTPException(404, "User not found"))
                ELSE Return("get_user", access_token, user_id, 200, Val(user), DB)

\* POST /api/users: the new user has the default role of the column
admin_create_user(access_token, user_data) ==
    LET current_user == require_admin(access_token, users)
    IN  IF current_user.raised # None
        THEN Refuse("create_user", access_token, Val(current_user.raised))
        ELSE IF get_user_by_username(users, user_data.username) # {None}
        THEN Raise("create_user", access_token, user_data,
                   HTTPException(400, "Username already registered"))
        ELSE IF get_user_by_email(users, user_data.email) # {None}
        THEN Raise("create_user", access_token, user_data,
                   HTTPException(400, "Email already registered"))
        ELSE LET user == [id |-> nextId, username |-> user_data.username,
                          email |-> user_data.email,
                          hashed_password |-> hash_password(user_data.password),
                          role |-> "standard"]
             IN  Return("create_user", access_token, user_data, 201, user,
                        [DB EXCEPT !.users = @ \cup {user}, !.nextId = @ + 1])

\* A faulty variant: the email is assigned without looking for its owner
update_user_fields_unchecked_email(us, user, user_data) ==
    IF /\ user_data.username # None
       /\ \E u \in us : u.username = Val(user_data.username) /\ u.id # user.id
    THEN [raised |-> Some(HTTPException(400, "Username already taken")), user |-> user]
    ELSE [raised |-> None,
          user |-> [user EXCEPT
                       !.username = IF user_data.username # None
                                    THEN Val(user_data.username) ELSE @,
                       !.email = IF user_data.email # None
                                 THEN Val(user_data.email) ELSE @,
                       !.hashed_password = IF user_data.password # None
                                           THEN hash_password(Val(user_data.password))
                                           ELSE @,
                       !.role = IF user_data.role # None THEN Val(user_data.role) ELSE @]]

\* The assignments of update_user to the row user, in the handler's order:
\* the row, or the exception at which the handler stops.
update_user_fields(us, user, user_data) ==
    LET named == IF user_data.username # None
                 THEN [user EXCEPT !.username = Val(user_data.username)] ELSE user
        mailed == IF user_data.email # None
                  THEN [named EXCEPT !.email = Val(user_data.email)] ELSE named
        hashed == IF user_data.password # None
                  THEN [mailed EXCEPT
                           !.hashed_password = hash_password(Val(user_data.password))]
                  ELSE mailed
        roled == IF user_data.role # None
                 THEN [hashed EXCEPT !.role = Val(user_data.role)] ELSE hashed
    IN  IF /\ user_data.username # None
           /\ \E u \in us : u.username = Val(user_data.username) /\ u.id # user.id
        THEN [raised |-> Some(HTTPException(400, "Username already taken")), user |-> user]
        ELSE IF /\ user_data.email # None
                /\ \E u \in us : u.email = Val(user_data.email) /\ u.id # user.id
        THEN [raised |-> Some(HTTPException(400, "Email already taken")), user |-> user]
        ELSE [raised |-> None, user |-> roled]

\* PUT /api/users/{user_id}
update_user(access_token, user_id, user_data) ==
    LET current_user == require_admin(access_token, users)
        args == [user_id |-> user_id, user_data |-> user_data]
    IN  IF current_user.raised # None
        THEN Refuse("update_user", access_token, Val(current_user.raised))
        ELSE \E user \in First({u \in users : u.id = user_id}) :
                IF user = None
                THEN Raise("update_user", access_token, args,
                           HTTPException(404, "User not found"))
                ELSE LET out == update_user_fields(users, Val(user), user_data)
                     IN  IF out.raised # None
                         THEN Raise("update_user", access_token, args, Val(out.raised))
                         ELSE Return("update_user", access_token, args, 200, out.user,
                                     [DB EXCEPT !.users = (@ \ {Val(user)}) \cup {out.user}])

\* A faulty variant: the user's recipes stay behind
delete_user_row_keeping_recipes(d, user) ==
    [d EXCEPT !.users = @ \ {user},
              !.ai_usage_logs = {IF l.user_id = Some(user.id)
                                 THEN [l EXCEPT !.user_id = None] ELSE l : l \in @}]

\* db.delete(user): the user's recipes go with it (cascade), the usage logs
\* of the user lose their user_id (ON DELETE SET NULL).
delete_user_row(d, user) ==
    [d EXCEPT !.users = @ \ {user},
              !.recipes = {r \in @ : r.user_id # user.id},
              !.ai_usage_logs = {IF l.user_id = Some(user.id)
                                 THEN [l EXCEPT !.user_id = None] ELSE l : l \in @}]

\* A faulty variant: the caller's own row is deleted like any other
delete_user_also_self(access_token, user_id) ==
    LET current_user == require_admin(access_token, users)
    IN  IF current_user.raised # None
        THEN Refuse("delete_user", access_token, Val(current_user.raised))
        ELSE \E user \in First({u \in users : u.id = user_id}) :
                IF user = None
                THEN Raise("delete_user", access_token, user_id,
                           HTTPException(404, "User not found"))
                ELSE Return("delete_user", access_token, user_id, 204, None,
                            delete_user_row(DB, Val(user)))

\* DELETE /api/users/{user_id}
delete_user(access_token, user_id) ==
    LET current_user == require_admin(access_token, users)
    IN  IF current_user.raised # None
        THEN Refuse("delete_user", access_token, Val(current_user.raised))
        ELSE IF user_id = Val(current_user.user).id
        THEN Raise("delete_user", access_token, user_id,
                   HTTPException(400, "Cannot delete your own account"))
        ELSE \E user \in First({u \in users : u.id = user_id}) :
                IF user = None
                THEN Raise("delete_user", access_token, user_id,
                           HTTPException(404, "User not found"))
                ELSE Return("delete_user", access_token, user_id, 204, None,
                            delete_user_row(DB, Val(user)))

\* AuthService.create_access_token: the claims sub, role and type, signed
\* and not yet expired
create_access_token(user_id, role) ==
    [type |-> "access", sub |-> Some(user_id), verifies |-> TRUE, role |-> role]

\* AuthService.create_refresh_token
create_refresh_token(user_id) == Token("refresh", Some(user_id), TRUE)

\* bcrypt.checkpw
verify_password(plain_password, hashed_password) ==
    hashed_password = hash_password(plain_password)

\* AuthService.authenticate_user: the user, or None
authenticate_user(us, username, password) ==
    LET user == CHOOSE u \in get_user_by_username(us, username) : TRUE
    IN  IF user = None THEN None
        ELSE IF ~verify_password(password, Val(user).hashed_password) THEN None
        ELSE user

UserLogins ==
    { [username |-> "admin", password |-> "admin-secret"],
      [username |-> "cook", password |-> "cook-secret"],
      [username |-> "cook", password |-> "admin-secret"],
      [username |-> "erin", password |-> "erin-secret"] }

\* The clients keep the access_token cookie of a response.
keep_cookie(ts, access_token) ==
    [i \in 1..Len(ts) |->
        IF ts[i].name = "clients"
        THEN [ts[i] EXCEPT !.access_tokens = @ \cup {Some(access_token)}]
        ELSE ts[i]]

\* POST /api/auth/login (the limit of 5 requests a minute is left out)
login(credentials) ==
    LET user == authenticate_user(users, credentials.username, credentials.password)
    IN  IF user = None
        THEN Raise("login", None, credentials,
                   HTTPException(401, "Invalid username or password"))
        ELSE /\ req' = [op |-> "login", access_token |-> None,
                        args |-> Some(credentials), before |-> DB]
             /\ resp' = Response(200, "",
                            [message |-> "Login successful",
                             set_cookie |->
                                 [access_token |->
                                      create_access_token(Val(user).id, Val(user).role),
                                  refresh_token |-> create_refresh_token(Val(user).id),
                                  logged_in |-> "true"]])
             /\ served' = served + 1
             /\ imp' = IdleImport
             /\ tasks' = keep_cookie(tasks,
                                     create_access_token(Val(user).id, Val(user).role))
             /\ Commit(DB)

\* POST /api/auth/logout
\* A faulty variant: the caller's account is closed with the session
logout_closing_account(access_token) ==
    LET current_user == get_current_user(access_token, users)
    IN  IF current_user.raised # None
        THEN Refuse("logout", access_token, Val(current_user.raised))
        ELSE Return("logout", access_token, <<>>, 200,
                    [message |-> "Logged out successfully",
                     delete_cookie |-> {"access_token", "refresh_token", "logged_in"}],
                    [DB EXCEPT !.users = @ \ {Val(current_user.user)}])

\* POST /api/auth/logout
logout(access_token) ==
    LET current_user == get_current_user(access_token, users)
    IN  IF current_user.raised # None
        THEN Refuse("logout", access_token, Val(current_user.raised))
        ELSE Return("logout", access_token, <<>>, 200,
                    [message |-> "Logged out successfully",
                     delete_cookie |-> {"access_token", "refresh_token", "logged_in"}],
                    DB)

\* A faulty variant: any token that verifies is taken as a refresh token
refresh_token_of_any_type(token) ==
    IF token = None
    THEN Raise("refresh_token", None, token, HTTPException(401, "No refresh token provided"))
    ELSE IF decode_token(Val(token)) = None
    THEN Raise("refresh_token", None, token, HTTPException(401, "Invalid refresh token"))
    ELSE IF Val(token).sub = None
    THEN Raise("refresh_token", None, token, HTTPException(401, "Invalid token payload"))
    ELSE \E user \in get_user_by_id(users, Val(Val(token).sub)) :
            IF user = None
            THEN Raise("refresh_token", None, token, HTTPException(401, "User not found"))
            ELSE Return("refresh_token", None, token, 200,
                        [message |-> "Token refreshed successfully",
                         set_cookie |->
                             [access_token |->
                                  create_access_token(Val(user).id, Val(user).role)]],
                        DB)

\* POST /api/auth/refresh: token is the refresh_token cookie
refresh_token(token) ==
    IF token = None
    THEN Raise("refresh_token", None, token, HTTPException(401, "No refresh token provided"))
    ELSE LET payload == decode_token(Val(token))
         IN  IF payload = None \/ Val(payload).type # "refresh"
             THEN Raise("refresh_token", None, token,
                        HTTPException(401, "Invalid refresh token"))
             ELSE IF Val(payload).sub = None
             THEN Raise("refresh_token", None, token,
                        HTTPException(401, "Invalid token payload"))
             ELSE \E user \in get_user_by_id(users, Val(Val(payload).sub)) :
                     IF user = None
                     THEN Raise("refresh_token", None, token,
                                HTTPException(401, "User not found"))
                     ELSE Return("refresh_token", None, token, 200,
                                 [message |-> "Token refreshed successfully",
                                  set_cookie |->
                                      [access_token |->
                                           create_access_token(Val(user).id,
                                                               Val(user).role)]],
                                 DB)

\* GET /api/auth/me
get_current_user_info(access_token) ==
    LET current_user == get_current_user(access_token, users)
    IN  IF current_user.raised # None
        THEN Refuse("get_current_user_info", access_token, Val(current_user.raised))
        ELSE Return("get_current_user_info", access_token, <<>>, 200,
                    Val(current_user.user), DB)

--------------------------------------------------------------------------
(* services/settings.py, routers/settings.py                               *)

AIProvider == {"openai", "anthropic", "gemini"}

AI_PROVIDER_KEY == "ai_provider"
OPENAI_API_KEY == "openai_api_key"
ANTHROPIC_API_KEY == "anthropic_api_key"
GEMINI_API_KEY == "gemini_api_key"
OPENAI_MODEL_KEY == "openai_model"
ANTHROPIC_MODEL_KEY == "anthropic_model"
GEMINI_MODEL_KEY == "gemini_model"

\* utils/encryption.py: the value as it is stored, and back
encrypt_value(value) == "enc:" \o value
decrypt_value(value) == SubSeq(value, 5, Len(value))

\* SettingsService.get_setting: the value of key, decrypted if encrypted
get_setting(d, key) ==
    LET setting == {s \in d.settings : s.key = key}
    IN  IF setting = {} THEN None
        ELSE LET s == CHOOSE x \in setting : TRUE
             IN  IF s.value = "" THEN None
                 ELSE IF s.is_encrypted THEN Some(decrypt_value(s.value))
                 ELSE Some(s.value)

\* A faulty variant: the row written is the only one left
set_setting_alone(d, key, value, encrypt) ==
    IF value = None
    THEN [d EXCEPT !.settings = {}]
    ELSE [d EXCEPT !.settings =
             {[key |-> key,
               value |-> IF encrypt THEN encrypt_value(Val(value)) ELSE Val(value),
               is_encrypted |-> encrypt]}]

\* SettingsService.set_setting: the row of key is written (or deleted when
\* value is None) and committed.
set_setting(d, key, value, encrypt) ==
    IF value = None
    THEN [d EXCEPT !.settings = {s \in @ : s.key # key}]
    ELSE [d EXCEPT !.settings =
             {s \in @ : s.key # key}
             \cup {[key |-> key,
                    value |-> IF encrypt THEN encrypt_value(Val(value)) ELSE Val(value),
                    is_encrypted |-> encrypt]}]

\* SettingsService.get_all_settings: the settings with masked API keys
get_all_settings(d) ==
    [ai_provider                  |-> get_setting(d, AI_PROVIDER_KEY),
     openai_api_key_configured    |-> get_setting(d, OPENAI_API_KEY) # None,
     anthropic_api_key_configured |-> get_setting(d, ANTHROPIC_API_KEY) # None,
     gemini_api_key_configured    |-> get_setting(d, GEMINI_API_KEY) # None]

NoSettingsUpdate ==
    [ai_provider |-> None, openai_api_key |-> None, anthropic_api_key |-> None,
     gemini_api_key |-> None, openai_model |-> None, anthropic_model |-> None,
     gemini_model |-> None]

SettingsUpdates ==
    { [NoSettingsUpdate EXCEPT !.ai_provider = Some("anthropic"),
                               !.openai_api_key = Some("sk-new"),
                               !.anthropic_api_key = Some("sk-anthropic")],
      [NoSettingsUpdate EXCEPT !.anthropic_api_key = Some("sk-anthropic"),
                               !.gemini_model = Some("gemini-pro")],
      [NoSettingsUpdate EXCEPT !.ai_provider = Some("gemini")] }

\* What validate_api_key answers during one request: the providers whose
\* key it accepts.
Validations == {{}, {"openai"}, AIProvider}

\* A faulty variant: the key is saved first and validated afterwards
save_api_key_unvalidated(d, provider, api_key, setting_key, valid) ==
    [raised |-> IF provider \in valid THEN None
                ELSE Some(HTTPException(400, "Invalid API key")),
     db |-> set_setting(d, setting_key, api_key, TRUE)]

\* A given key is validated, and saved if validate_api_key accepts it.
save_api_key(d, provider, api_key, setting_key, valid) ==
    IF provider \notin valid
    THEN [raised |-> Some(HTTPException(
                         400, "Invalid " \o (CASE provider = "openai" -> "OPENAI"
                                               [] provider = "anthropic" -> "ANTHROPIC"
                                               [] OTHER -> "GEMINI")
                              \o " API key")),
          db |-> d]
    ELSE [raised |-> None, db |-> set_setting(d, setting_key, api_key, TRUE)]

\* The loop of update_settings over api_key_updates from index i on: each
\* given key is validated, then saved; valid are the providers whose key
\* validate_api_key accepts.  Every set_setting commits, so what was saved
\* before a key is refused stays saved.
RECURSIVE update_api_keys(_, _, _, _)
update_api_keys(d, api_key_updates, i, valid) ==
    IF i > Len(api_key_updates) THEN [raised |-> None, db |-> d]
    ELSE LET provider == api_key_updates[i][1]
             api_key == api_key_updates[i][2]
             setting_key == api_key_updates[i][3]
         IN  IF api_key = None
             THEN update_api_keys(d, api_key_updates, i + 1, valid)
             ELSE LET saved == save_api_key(d, provider, api_key, setting_key, valid)
                  IN  IF saved.raised # None THEN saved
                      ELSE update_api_keys(saved.db, api_key_updates, i + 1, valid)

\* The loop of update_settings over model_updates from index i on
RECURSIVE update_models(_, _, _)
update_models(d, model_updates, i) ==
    IF i > Len(model_updates) THEN d
    ELSE IF model_updates[i][1] = None THEN update_models(d, model_updates, i + 1)
    ELSE update_models(set_setting(d, model_updates[i][2], model_updates[i][1], FALSE),
                       model_updates, i + 1)

\* GET /api/settings
get_settings(access_token) ==
    LET current_user == require_admin(access_token, users)
    IN  IF current_user.raised # None
        THEN Refuse("get_settings", access_token, Val(current_user.raised))
        ELSE Return("get_settings", access_token, <<>>, 200, get_all_settings(DB), DB)

\* PUT /api/settings
update_settings(access_token, settings_data, valid) ==
    LET current_user == require_admin(access_token, users)
        with_provider ==
            IF settings_data.ai_provider # None
            THEN set_setting(DB, AI_PROVIDER_KEY, settings_data.ai_provider, FALSE)
            ELSE DB
        api_key_updates ==
            << <<"openai", settings_data.openai_api_key, OPENAI_API_KEY>>,
               <<"anthropic", settings_data.anthropic_api_key, ANTHROPIC_API_KEY>>,
               <<"gemini", settings_data.gemini_api_key, GEMINI_API_KEY>> >>
        model_updates ==
            << <<settings_data.openai_model, OPENAI_MODEL_KEY>>,
               <<settings_data.anthropic_model, ANTHROPIC_MODEL_KEY>>,
               <<settings_data.gemini_model, GEMINI_MODEL_KEY>> >>
        with_keys == update_api_keys(with_provider, api_key_updates, 1, valid)
        with_models == update_models(with_keys.db, model_updates, 1)
        args == [settings_data |-> settings_data, valid |-> valid]
    IN  IF current_user.raised # None
        THEN Refuse("update_settings", access_token, Val(current_user.raised))
        ELSE IF with_keys.raised # None
        THEN /\ Answer("update_settings", access_token, Some(args),
                       ErrorResponse(Val(with_keys.raised)))
             /\ Commit(with_keys.db)
        ELSE Return("update_settings", access_token, args, 200,
                    get_all_settings(with_models), with_models)

--------------------------------------------------------------------------
(* services/ai_usage_service.py, routers/ai_usage.py                       *)

\* The days (since the first log entry) at which a request is served.
Clock == {1, 45}
RetentionDays == {0, 30}

\* A usage log row as AIUsageService.log_usage writes it.
AIUsageLog(id, user_id, provider, input_type, total_tokens, success, created_at) ==
    [id |-> id, user_id |-> user_id, provider |-> provider, input_type |-> input_type,
     total_tokens |-> total_tokens, success |-> success, created_at |-> created_at]

\* The sum of total_tokens over logs (coalesce(sum(total_tokens), 0))
RECURSIVE sum_total_tokens(_)
sum_total_tokens(logs) ==
    IF logs = {} THEN 0
    ELSE LET l == CHOOSE x \in logs : TRUE
         IN  (IF l.total_tokens = None THEN 0 ELSE Val(l.total_tokens))
             + sum_total_tokens(logs \ {l})

\* AIUsageService.get_usage_logs: one page of the logs of user_id (of all
\* users when None), latest first
get_usage_logs(d, page, page_size, user_id) ==
    LET query == {l \in d.ai_usage_logs : user_id = None \/ l.user_id = user_id}
        total == Cardinality(query)
        offset == (page - 1) * page_size
        ordered == LatestFirst(query)
        upto == IF offset + page_size < total THEN offset + page_size ELSE total
    IN  [items |-> SubSeq(ordered, offset + 1, upto), total |-> total,
         page |-> page, page_size |-> page_size]

\* AIUsageService.get_usage_summary over all logs
get_usage_summary(d) ==
    LET query == d.ai_usage_logs
    IN  [total_calls |-> Cardinality(query),
         total_tokens |-> sum_total_tokens(query),
         calls_by_provider |->
             [p \in {l.provider : l \in query} |->
                 Cardinality({l \in query : l.provider = p})],
         calls_by_input_type |->
             [t \in {l.input_type : l \in query} |->
                 Cardinality({l \in query : l.input_type = t})],
         period_start |-> None, period_end |-> None]

\* AIUsageService.cleanup_old_logs: the logs older than the cutoff go
cleanup_old_logs(d, retention_days, now) ==
    LET cutoff == now - retention_days
        old == {l \in d.ai_usage_logs : l.created_at < cutoff}
    IN  [db |-> [d EXCEPT !.ai_usage_logs = @ \ old], count |-> Cardinality(old)]

\* GET /api/ai-usage/logs
get_usage_logs_endpoint(access_token, page, page_size, user_id) ==
    LET current_user == require_admin(access_token, users)
        args == [page |-> page, page_size |-> page_size, user_id |-> user_id]
    IN  IF current_user.raised # None
        THEN Refuse("get_usage_logs", access_token, Val(current_user.raised))
        ELSE Return("get_usage_logs", access_token, args, 200,
                    get_usage_logs(DB, page, page_size, user_id), DB)

\* GET /api/ai-usage/summary
get_usage_summary_endpoint(access_token) ==
    LET current_user == require_admin(access_token, users)
    IN  IF current_user.raised # None
        THEN Refuse("get_usage_summary", access_token, Val(current_user.raised))
        ELSE Return("get_usage_summary", access_token, <<>>, 200,
                    get_usage_summary(DB), DB)

\* DELETE /api/ai-usage/logs
delete_usage_logs(access_token, retention_days, now) ==
    LET current_user == require_admin(access_token, users)
        out == cleanup_old_logs(DB, retention_days, now)
        args == [retention_days |-> retention_days, now |-> now]
    IN  IF current_user.raised # None
        THEN Refuse("delete_usage_logs", access_token, Val(current_user.raised))
        ELSE Return("delete_usage_logs", access_token, args, 200,
                    [deleted |-> out.count], out.db)

--------------------------------------------------------------------------
(* routers/categories.py, routers/tags.py                                  *)

CategoryCreates ==
    { [name |-> "Desserts", description |-> None],
      [name |-> "Mains", description |-> Some("Main courses")] }

CategoryUpdates ==
    { [name |-> Some("Mains"), description |-> None],
      [name |-> Some("Desserts"), description |-> Some("Sweet and cold")] }

TagCreates == { [name |-> "sweet"], [name |-> "quick"] }

\* POST /api/categories
create_category(access_token, category_data) ==
    LET current_user == require_admin(access_token, users)
        category == [id |-> nextId, name |-> category_data.name,
                     description |-> category_data.description]
    IN  IF current_user.raised # None
        THEN Refuse("create_category", access_token, Val(current_user.raised))
        ELSE IF \E c \in categories : c.name = category_data.name
        THEN Raise("create_category", access_token, category_data,
                   HTTPException(400, "Category with this name already exists"))
        ELSE Return("create_category", access_token, category_data, 201, category,
                    [DB EXCEPT !.categories = @ \cup {category}, !.nextId = @ + 1])

\* PUT /api/categories/{category_id}
update_category(access_token, category_id, category_data) ==
    LET current_user == require_admin(access_token, users)
        args == [category_id |-> category_id, category_data |-> category_data]
    IN  IF current_user.raised # None
        THEN Refuse("update_category", access_token, Val(current_user.raised))
        ELSE \E category \in First({c \in categories : c.id = category_id}) :
                IF category = None
                THEN Raise("update_category", access_token, args,
                           HTTPException(404, "Category not found"))
                ELSE IF /\ category_data.name # None
                        /\ \E c \in categories :
                              c.name = Val(category_data.name) /\ c.id # category_id
                THEN Raise("update_category", access_token, args,
                           HTTPException(400, "Category with this name already exists"))
                ELSE LET named == IF category_data.name # None
                                  THEN [Val(category) EXCEPT
                                           !.name = Val(category_data.name)]
                                  ELSE Val(category)
                         updated == IF category_data.description # None
                                    THEN [named EXCEPT
                                             !.description = category_data.description]
                                    ELSE named
                     IN  Return("update_category", access_token, args, 200, updated,
                                [DB EXCEPT !.categories =
                                               (@ \ {Val(category)}) \cup {updated}])

\* DELETE /api/categories/{category_id}: the recipes of the category lose
\* their category_id (ON DELETE SET NULL).
delete_category(access_token, category_id) ==
    LET current_user == require_admin(access_token, users)
    IN  IF current_user.raised # None
        THEN Refuse("delete_category", access_token, Val(current_user.raised))
        ELSE \E category \in First({c \in categories : c.id = category_id}) :
                IF category = None
                THEN Raise("delete_category", access_token, category_id,
                           HTTPException(404, "Category not found"))
                ELSE Return("delete_category", access_token, category_id, 204, None,
                            [DB EXCEPT
                                !.categories = @ \ {Val(category)},
                                !.recipes = {IF r.category_id = Some(category_id)
                                             THEN [r EXCEPT !.category_id = None]
                                             ELSE r : r \in @}])

\* POST /api/tags
create_tag(access_token, tag_data) ==
    LET current_user == require_admin(access_token, users)
        tag == [id |-> nextId, name |-> tag_data.name]
    IN  IF current_user.raised # None
        THEN Refuse("create_tag", access_token, Val(current_user.raised))
        ELSE IF \E t \in tags : t.name = tag_data.name
        THEN Raise("create_tag", access_token, tag_data,
                   HTTPException(400, "Tag with this name already exists"))
        ELSE Return("create_tag", access_token, tag_data, 201, tag,
                    [DB EXCEPT !.tags = @ \cup {tag}, !.nextId = @ + 1])

\* DELETE /api/tags/{tag_id}: the recipe_tags rows of the tag go with it
\* (ON DELETE CASCADE).
delete_tag(access_token, tag_id) ==
    LET current_user == require_admin(access_token, users)
    IN  IF current_user.raised # None
        THEN Refuse("delete_tag", access_token, Val(current_user.raised))
        ELSE \E tag \in First({t \in tags : t.id = tag_id}) :
                IF tag = None
                THEN Raise("delete_tag", access_token, tag_id,
                           HTTPException(404, "Tag not found"))
                ELSE Return("delete_tag", access_token, tag_id, 204, None,
                            [DB EXCEPT
                                !.tags = @ \ {Val(tag)},
                                !.recipes = {[r EXCEPT !.tags = @ \ {tag_id}] : r \in @}])

--------------------------------------------------------------------------
(* routers/recipes.py                                                      *)

\* schemas/recipe.py RecipeCreate
MkRecipeCreate(title, content, complexity, category_id, tag_ids) ==
    [title             |-> title,
     description       |-> content.description,
     ingredients       |-> content.ingredients,
     instructions      |-> content.instructions,
     prep_time_minutes |-> content.prep_time_minutes,
     cook_time_minutes |-> content.cook_time_minutes,
     servings          |-> content.servings,
     notes             |-> content.notes,
     category_id       |-> category_id,
     tag_ids           |-> tag_ids,
     complexity        |-> complexity,
     special_equipment |-> content.special_equipment,
     source_author     |-> content.source_author,
     source_url        |-> content.source_url]

\* Bodies of POST /api/recipes: no category, the seeded category (id 3) or
\* an id of no category; no tag, the seeded tag (id 4), the seeded tag and
\* an id of no tag, the seeded tag twice.
RecipeCreates ==
    { MkRecipeCreate("C", FullContent, Some("medium"), category_id, tag_ids) :
          category_id \in {None, Some(3), Some(0)},
          tag_ids \in {<<>>, <<4>>, <<4, 0>>, <<4, 4>>} }

\* schemas/recipe.py RecipeUpdate with no field supplied
NoRecipeUpdate ==
    [title |-> None, description |-> None, ingredients |-> None, instructions |-> None,
     prep_time_minutes |-> None, cook_time_minutes |-> None, servings |-> None,
     notes |-> None, category_id |-> None, tag_ids |-> None, complexity |-> None,
     special_equipment |-> None, source_author |-> None, source_url |-> None]

\* Bodies of PUT /api/recipes/{recipe_id}
RecipeUpdates ==
    { [NoRecipeUpdate EXCEPT !.title = Some("T"), !.special_equipment = Some(<<>>)],
      [NoRecipeUpdate EXCEPT !.description = Some("New description"),
                             !.servings = Some(8), !.complexity = Some("hard"),
                             !.category_id = Some(3), !.tag_ids = Some(<<>>)],
      [NoRecipeUpdate EXCEPT !.notes = Some("New notes"), !.category_id = Some(0)],
      [NoRecipeUpdate EXCEPT !.source_author = Some("Me"), !.tag_ids = Some(<<4>>)],
      [NoRecipeUpdate EXCEPT !.source_url = Some("https://example.com/new"),
                             !.tag_ids = Some(<<4, 0>>)],
      [title             |-> Some("T"),
       description       |-> FullContent.description,
       ingredients       |-> Some(FullContent.ingredients),
       instructions      |-> Some(FullContent.instructions),
       prep_time_minutes |-> FullContent.prep_time_minutes,
       cook_time_minutes |-> FullContent.cook_time_minutes,
       servings          |-> FullContent.servings,
       notes             |-> FullContent.notes,
       category_id       |-> Some(3),
       tag_ids           |-> Some(<<4>>),
       complexity        |-> Some("medium"),
       special_equipment |-> FullContent.special_equipment,
       source_author     |-> FullContent.source_author,
       source_url        |-> FullContent.source_url] }

\* db.query(Tag).filter(Tag.id.in_(tag_ids)).all(): the rows, each once
tags_with_ids(d, tag_ids) == {tag \in d.tags : tag.id \in Range(tag_ids)}

\* GET /api/recipes/{recipe_id}
get_recipe(access_token, recipe_id) ==
    LET current_user == get_current_user(access_token, users)
    IN  IF current_user.raised # None
        THEN Refuse("get_recipe", access_token, Val(current_user.raised))
        ELSE \E recipe \in First({r \in recipes : r.id = recipe_id}) :
                IF recipe = None
                THEN Raise("get_recipe", access_token, recipe_id,
                           HTTPException(404, "Recipe not found"))
                ELSE Return("get_recipe", access_token, recipe_id, 200, Val(recipe), DB)

\* POST /api/recipes
create_recipe(access_token, recipe_data) ==
    LET current_user == get_current_user(access_token, users)
        tag_rows == IF recipe_data.tag_ids # <<>>
                    THEN tags_with_ids(DB, recipe_data.tag_ids) ELSE {}
        recipe ==
            [id                |-> nextId,
             title             |-> recipe_data.title,
             description       |-> recipe_data.description,
             ingredients       |-> [i \in 1..Len(recipe_data.ingredients) |->
                                       ingredient_model_dump(recipe_data.ingredients[i])],
             instructions      |-> [i \in 1..Len(recipe_data.instructions) |->
                                       instruction_model_dump(recipe_data.instructions[i])],
             prep_time_minutes |-> recipe_data.prep_time_minutes,
             cook_time_minutes |-> recipe_data.cook_time_minutes,
             servings          |-> recipe_data.servings,
             notes             |-> recipe_data.notes,
             complexity        |-> recipe_data.complexity,
             special_equipment |-> recipe_data.special_equipment,
             source_author     |-> recipe_data.source_author,
             source_url        |-> recipe_data.source_url,
             category_id       |-> recipe_data.category_id,
             user_id           |-> Val(current_user.user).id,
             tags              |-> {tag.id : tag \in tag_rows}]
    IN  IF current_user.raised # None
        THEN Refuse("create_recipe", access_token, Val(current_user.raised))
        ELSE IF /\ recipe_data.category_id # None
                /\ ~\E c \in categories : c.id = Val(recipe_data.category_id)
        THEN Raise("create_recipe", access_token, recipe_data,
                   HTTPException(400, "Category not found"))
        ELSE IF /\ recipe_data.tag_ids # <<>>
                /\ Cardinality(tag_rows) # Len(recipe_data.tag_ids)
        THEN Raise("create_recipe", access_token, recipe_data,
                   HTTPException(400, "One or more tags not found"))
        ELSE Return("create_recipe", access_token, recipe_data, 201, recipe,
                    [DB EXCEPT !.recipes = @ \cup {recipe}, !.nextId = @ + 1])

\* A faulty variant: nobody is kept from changing a recipe
not_authorized_nobody(recipe, current_user) == FALSE

\* The guard of update_recipe and delete_recipe: the caller is neither the
\* recipe's owner nor an admin.
not_authorized(recipe, current_user) ==
    recipe.user_id # current_user.id /\ current_user.role # "admin"

\* A faulty variant: the fields the request does not supply are cleared
update_recipe_replacing(d, recipe, recipe_data) ==
    IF /\ recipe_data.category_id # None
       /\ ~\E c \in d.categories : c.id = Val(recipe_data.category_id)
    THEN [raised |-> Some(HTTPException(400, "Category not found")), recipe |-> recipe]
    ELSE IF /\ recipe_data.tag_ids # None /\ Val(recipe_data.tag_ids) # <<>>
            /\ Cardinality(tags_with_ids(d, Val(recipe_data.tag_ids)))
                   # Len(Val(recipe_data.tag_ids))
    THEN [raised |-> Some(HTTPException(400, "One or more tags not found")),
          recipe |-> recipe]
    ELSE [raised |-> None,
          recipe |->
              [recipe EXCEPT
                  !.title = IF recipe_data.title # None THEN Val(recipe_data.title) ELSE @,
                  !.description = recipe_data.description,
                  !.ingredients = IF recipe_data.ingredients # None
                                  THEN Val(recipe_data.ingredients) ELSE <<>>,
                  !.instructions = IF recipe_data.instructions # None
                                   THEN Val(recipe_data.instructions) ELSE <<>>,
                  !.prep_time_minutes = recipe_data.prep_time_minutes,
                  !.cook_time_minutes = recipe_data.cook_time_minutes,
                  !.servings = recipe_data.servings,
                  !.notes = recipe_data.notes,
                  !.complexity = recipe_data.complexity,
                  !.special_equipment = recipe_data.special_equipment,
                  !.source_author = recipe_data.source_author,
                  !.source_url = recipe_data.source_url,
                  !.category_id = recipe_data.category_id,
                  !.tags = IF recipe_data.tag_ids # None
                           THEN {tag.id : tag \in tags_with_ids(d, Val(recipe_data.tag_ids))}
                           ELSE {}]]

\* The assignments of update_recipe to the row recipe, in the handler's
\* order: the row, or the exception at which the handler stops.
update_recipe_fields(d, recipe, recipe_data) ==
    LET Supplied(field, stored) == IF field # None THEN field ELSE stored
        plain ==
            [recipe EXCEPT
                !.title = IF recipe_data.title # None THEN Val(recipe_data.title) ELSE @,
                !.description = Supplied(recipe_data.description, @),
                !.ingredients =
                    IF recipe_data.ingredients # None
                    THEN [i \in 1..Len(Val(recipe_data.ingredients)) |->
                             ingredient_model_dump(Val(recipe_data.ingredients)[i])]
                    ELSE @,
                !.instructions =
                    IF recipe_data.instructions # None
                    THEN [i \in 1..Len(Val(recipe_data.instructions)) |->
                             instruction_model_dump(Val(recipe_data.instructions)[i])]
                    ELSE @,
                !.prep_time_minutes = Supplied(recipe_data.prep_time_minutes, @),
                !.cook_time_minutes = Supplied(recipe_data.cook_time_minutes, @),
                !.servings = Supplied(recipe_data.servings, @),
                !.notes = Supplied(recipe_data.notes, @),
                !.complexity = Supplied(recipe_data.complexity, @),
                !.special_equipment = Supplied(recipe_data.special_equipment, @),
                !.source_author = Supplied(recipe_data.source_author, @),
                !.source_url = Supplied(recipe_data.source_url, @)]
    IN  IF /\ recipe_data.category_id # None
           /\ ~\E c \in d.categories : c.id = Val(recipe_data.category_id)
        THEN [raised |-> Some(HTTPException(400, "Category not found")), recipe |-> recipe]
        ELSE IF /\ recipe_data.tag_ids # None /\ Val(recipe_data.tag_ids) # <<>>
                /\ Cardinality(tags_with_ids(d, Val(recipe_data.tag_ids)))
                       # Len(Val(recipe_data.tag_ids))
        THEN [raised |-> Some(HTTPException(400, "One or more tags not found")),
              recipe |-> recipe]
        ELSE [raised |-> None,
              recipe |->
                  [plain EXCEPT
                      !.category_id = Supplied(recipe_data.category_id, @),
                      !.tags = IF recipe_data.tag_ids # None
                               THEN {tag.id :
                                       tag \in tags_with_ids(d, Val(recipe_data.tag_ids))}
                               ELSE @]]

\* PUT /api/recipes/{recipe_id}
update_recipe(access_token, recipe_id, recipe_data) ==
    LET current_user == get_current_user(access_token, users)
        args == [recipe_id |-> recipe_id, recipe_data |-> recipe_data]
        updated(recipe, out) ==
            IF out.raised # None
            THEN Raise("update_recipe", access_token, args, Val(out.raised))
            ELSE Return("update_recipe", access_token, args, 200, out.recipe,
                        [DB EXCEPT !.recipes = (@ \ {recipe}) \cup {out.recipe}])
    IN  IF current_user.raised # None
        THEN Refuse("update_recipe", access_token, Val(current_user.raised))
        ELSE \E recipe \in First({r \in recipes : r.id = recipe_id}) :
                IF recipe = None
                THEN Raise("update_recipe", access_token, args,
                           HTTPException(404, "Recipe not found"))
                ELSE IF not_authorized(Val(recipe), Val(current_user.user))
                THEN Raise("update_recipe", access_token, args,
                           HTTPException(403, "Not authorized to update this recipe"))
                ELSE updated(Val(recipe),
                             update_recipe_fields(DB, Val(recipe), recipe_data))

\* DELETE /api/recipes/{recipe_id}
delete_recipe(access_token, recipe_id) ==
    LET current_user == get_current_user(access_token, users)
    IN  IF current_user.raised # None
        THEN Refuse("delete_recipe", access_token, Val(current_user.raised))
        ELSE \E recipe \in First({r \in recipes : r.id = recipe_id}) :
                IF recipe = None
                THEN Raise("delete_recipe", access_token, recipe_id,
                           HTTPException(404, "Recipe not found"))
                ELSE IF not_authorized(Val(recipe), Val(current_user.user))
                THEN Raise("delete_recipe", access_token, recipe_id,
                           HTTPException(403, "Not authorized to delete this recipe"))
                ELSE Return("delete_recipe", access_token, recipe_id, 204, None,
                            [DB EXCEPT !.recipes = @ \ {Val(recipe)}])

--------------------------------------------------------------------------
(* services/url_scraper.py, services/schema_mapper.py,                     *)
(* services/ai/factory.py, routers/import_router.py                        *)

\* A Python exception by its class and message.
Exception(type, message) == [type |-> type, message |-> message]

\* dict.get(key): None when the key is absent
Get(dict, key) == IF key \in DOMAIN dict THEN Some(dict[key]) ELSE None

\* A JSON string where a value of another type can stand as well.
Str(s) == [str |-> s]
isinstance_str(x) == DOMAIN x = {"str"}

\* schema.org Recipe objects as extract_schema_org_recipe finds them in a
\* page (the key @type is written type): a bare one, a full one, one
\* without a name, one whose yield is no serving at all, one whose
\* ingredient is an object instead of a string.
SchemaRecipes ==
    { [type |-> "Recipe", name |-> "Simple Recipe"],
      [type |-> "Recipe", name |-> "Schema.org Recipe",
       description |-> "A recipe with structured data",
       recipeIngredient |-> <<Str("1 cup flour"), Str("2 eggs"), Str("salt to taste")>>,
       recipeInstructions |->
           <<[type |-> "HowToStep", text |-> "Mix ingredients."],
             [type |-> "HowToSection",
              itemListElement |-> <<[type |-> "HowToStep", text |-> "Bake."],
                                    [type |-> "HowToTip", text |-> "Keep warm."]>>],
             Str("Serve."),
             [type |-> "HowToStep", text |-> ""]>>,
       prepTime |-> "PT15M", cookTime |-> "soon", recipeYield |-> "4 servings"],
      [type |-> "Recipe", description |-> "A recipe without a name"],
      [type |-> "Recipe", name |-> "Nothing", recipeYield |-> "0 servings",
       prepTime |-> "PT1H30M"],
      [type |-> "Recipe", name |-> "Odd",
       recipeIngredient |-> <<[type |-> "HowToSupply", name |-> "flour"]>>] }

\* UrlContent: the visible text of the page and its schema.org Recipe
UrlContent(text, schema_recipe) == [text |-> text, schema_recipe |-> schema_recipe]

\* What UrlScraperService.fetch_url_content comes to: the content of the
\* page, UrlFetchError (404, 5xx, timeout) or UrlBlockedError (403, 429).
Fetches ==
    { [raised |-> None, url_content |-> Some(UrlContent("Recipe text", schema_recipe))] :
         schema_recipe \in {None} \cup {Some(s) : s \in SchemaRecipes} }
    \cup { [raised |-> Some(Exception("UrlFetchError", "Page not found (404)")),
            url_content |-> None],
           [raised |-> Some(Exception("UrlBlockedError", "Access blocked (403 Forbidden)")),
            url_content |-> None] }

\* _parse_iso8601_duration on the durations of SchemaRecipes: the minutes
\* of P(nD)T(nH)(nM)(nS) when they are positive, None for any other text.
_parse_iso8601_duration(duration) ==
    IF ~Truthy(duration) THEN None
    ELSE CASE Val(duration) = "PT15M" -> Some(15)
           [] Val(duration) = "PT30M" -> Some(30)
           [] Val(duration) = "PT1H30M" -> Some(1 * 60 + 30)
           [] Val(duration) = "PT0M" -> None
           [] OTHER -> None

\* _parse_servings on the yields of SchemaRecipes: the first number of the
\* text
_parse_servings(recipe_yield) ==
    IF recipe_yield = None THEN None
    ELSE CASE Val(recipe_yield) = "4 servings" -> Some(4)
           [] Val(recipe_yield) = "0 servings" -> Some(0)
           [] OTHER -> None

Ingredient(name, quantity, unit) ==
    [name |-> name, quantity |-> quantity, unit |-> unit, notes |-> None]

\* _parse_ingredient: quantity, unit and name of the ingredient strings of
\* SchemaRecipes; str.strip() of anything but a string is an
\* AttributeError.
_parse_ingredient(ingredient_str) ==
    IF ~isinstance_str(ingredient_str)
    THEN [raised |-> Some(Exception("AttributeError",
                                    "'dict' object has no attribute 'strip'")),
          ingredient |-> None]
    ELSE [raised |-> None,
          ingredient |->
              Some(CASE ingredient_str.str = "1 cup flour" ->
                            Ingredient("flour", Some("1"), Some("cup"))
                     [] ingredient_str.str = "2 eggs" ->
                            Ingredient("eggs", Some("2"), None)
                     [] OTHER -> Ingredient(ingredient_str.str, None, None))]

\* [_parse_ingredient(ing) for ing in raw_ingredients if ing]
RECURSIVE parse_ingredients(_, _)
parse_ingredients(raw_ingredients, i) ==
    IF i > Len(raw_ingredients) THEN [raised |-> None, ingredients |-> <<>>]
    ELSE IF raw_ingredients[i] = Str("") THEN parse_ingredients(raw_ingredients, i + 1)
    ELSE LET first == _parse_ingredient(raw_ingredients[i])
             prepend(rest) ==
                 IF rest.raised # None THEN rest
                 ELSE [raised |-> None,
                       ingredients |-> <<Val(first.ingredient)>> \o rest.ingredients]
         IN  IF first.raised # None
             THEN [raised |-> first.raised, ingredients |-> <<>>]
             ELSE prepend(parse_ingredients(raw_ingredients, i + 1))

\* The texts of the steps of raw_instructions in their order: a string is
\* a step, a HowToStep (or an object of an unknown type) is one by its
\* text when it has one, a HowToSection gives the HowToSteps it lists.
RECURSIVE step_texts(_, _, _)
step_texts(items, i, nested) ==
    IF i > Len(items) THEN <<>>
    ELSE LET item == items[i]
             text == IF "text" \in DOMAIN item THEN item.text ELSE ""
             here ==
                 IF isinstance_str(item)
                 THEN IF nested THEN <<>> ELSE <<item.str>>
                 ELSE IF nested
                 THEN IF Get(item, "type") = Some("HowToStep") /\ text # ""
                      THEN <<text>> ELSE <<>>
                 ELSE IF Get(item, "type") = Some("HowToSection")
                 THEN IF "itemListElement" \in DOMAIN item
                      THEN step_texts(item.itemListElement, 1, TRUE) ELSE <<>>
                 ELSE IF text # "" THEN <<text>> ELSE <<>>
         IN  here \o step_texts(items, i + 1, nested)

\* _parse_instructions: the steps numbered from 1
_parse_instructions(raw_instructions) ==
    LET texts == step_texts(raw_instructions, 1, FALSE)
    IN  [n \in 1..Len(texts) |-> [step_number |-> n, text |-> texts[n]]]

\* Confidence scores are counted in tenths.
SCHEMA_ORG_CONFIDENCE == 9

RecipeExtraction(title, description, ingredients, instructions, prep_time, cook_time, servings, confidence, warnings) ==
    [title |-> title, description |-> description, ingredients |-> ingredients,
     instructions |-> instructions, prep_time_minutes |-> prep_time,
     cook_time_minutes |-> cook_time, servings |-> servings,
     notes |-> None, special_equipment |-> None,
     confidence |-> confidence, warnings |-> warnings]

\* map_schema_org_to_extraction: the RecipeExtraction of schema_data, or
\* the exception that leaves it: ValueError without a name, pydantic's
\* ValidationError (a ValueError) for servings below 1, whatever
\* _parse_ingredient raised.
map_schema_org_to_extraction(schema_data) ==
    LET title == Get(schema_data, "name")
        prep_time == _parse_iso8601_duration(Get(schema_data, "prepTime"))
        cook_time == _parse_iso8601_duration(Get(schema_data, "cookTime"))
        prep_warning ==
            IF Truthy(Get(schema_data, "prepTime")) /\ prep_time = None
            THEN <<"Could not parse prep time: " \o schema_data.prepTime>> ELSE <<>>
        cook_warning ==
            IF Truthy(Get(schema_data, "cookTime")) /\ cook_time = None
            THEN <<"Could not parse cook time: " \o schema_data.cookTime>> ELSE <<>>
        servings == _parse_servings(Get(schema_data, "recipeYield"))
        raw_ingredients ==
            IF "recipeIngredient" \in DOMAIN schema_data
            THEN schema_data.recipeIngredient ELSE <<>>
        raw_instructions ==
            IF "recipeInstructions" \in DOMAIN schema_data
            THEN schema_data.recipeInstructions ELSE <<>>
        construct(parsed) ==
            IF parsed.raised # None THEN [raised |-> parsed.raised, extraction |-> None]
            ELSE IF servings # None /\ Val(servings) < 1
            THEN [raised |-> Some(Exception("ValueError",
                      "1 validation error for RecipeExtraction")),
                  extraction |-> None]
            ELSE [raised |-> None,
                  extraction |->
                      Some(RecipeExtraction(Val(title), Get(schema_data, "description"),
                                            parsed.ingredients,
                                            _parse_instructions(raw_instructions),
                                            prep_time, cook_time, servings,
                                            SCHEMA_ORG_CONFIDENCE,
                                            prep_warning \o cook_warning))]
    IN  IF ~Truthy(title)
        THEN [raised |-> Some(Exception("ValueError",
                                        "Recipe name is required in schema.org data")),
              extraction |-> None]
        ELSE construct(parse_ingredients(raw_ingredients, 1))

\* SettingsService.get_ai_config: the active provider and its API key
get_ai_config(d) ==
    LET provider_val == get_setting(d, AI_PROVIDER_KEY)
        key_map == [provider \in AIProvider |->
                       CASE provider = "openai" -> OPENAI_API_KEY
                         [] provider = "anthropic" -> ANTHROPIC_API_KEY
                         [] provider = "gemini" -> GEMINI_API_KEY]
        keyed(api_key) ==
            IF ~Truthy(api_key) THEN None
            ELSE Some([provider |-> Val(provider_val), api_key |-> Val(api_key)])
    IN  IF ~Truthy(provider_val) THEN None
        ELSE keyed(get_setting(d, key_map[Val(provider_val)]))

\* get_ai_provider: the provider instance of the configuration, or
\* AINotConfiguredError
get_ai_provider(d) ==
    LET config == get_ai_config(d)
    IN  IF config = None
        THEN [raised |-> Some(Exception("AINotConfiguredError",
                                        "No AI provider configured.")),
              provider |-> None]
        ELSE [raised |-> None,
              provider |-> Some([provider_name |-> Val(config).provider,
                                 api_key |-> Val(config).api_key])]

\* What provider.extract_recipe_from_text comes to at the third party: an
\* extraction with the tokens it cost, or AIExtractionError.
AIExtractions ==
    { [raised |-> None,
       extraction |-> Some(RecipeExtraction("AI Recipe", None, <<>>, <<>>, None, None,
                                            None, 7, <<>>)),
       total_tokens |-> Some(150)],
      [raised |-> Some(Exception("AIExtractionError", "Empty response")),
       extraction |-> None, total_tokens |-> None] }

\* AIUsageService.log_usage: the row is added and committed
log_usage(d, user_id, provider, input_type, total_tokens, success, now) ==
    [d EXCEPT !.ai_usage_logs =
                  @ \cup {AIUsageLog(d.nextId, Some(user_id), provider, input_type,
                                     total_tokens, success, now)},
              !.nextId = @ + 1]

\* A faulty variant: the page's schema.org data is not looked at
schema_org_ignored(url_content) == [tried |-> FALSE, raised |-> None, extraction |-> None]

\* The schema.org branch of import_from_url: whether the page has a
\* schema.org Recipe, and what its mapping came to.
schema_org(url_content) ==
    LET mapped(m) == [tried |-> TRUE, raised |-> m.raised, extraction |-> m.extraction]
    IN  IF url_content.schema_recipe = None
        THEN [tried |-> FALSE, raised |-> None, extraction |-> None]
        ELSE mapped(map_schema_org_to_extraction(Val(url_content.schema_recipe)))

\* POST /api/import/url.  fetched and ai are what the page's server and
\* the AI provider's API answer when they are asked; calls are the
\* collaborators the handler has asked, in that order.
import_from_url(access_token, fetched, ai, now) ==
    LET current_user == get_current_user(access_token, users)
        op == "import_from_url"
        args(calls) == [fetched |-> fetched, ai |-> ai, calls |-> calls]
        extract(calls, provider) ==
            IF ai.raised = None
            THEN Return(op, access_token, args(calls \o <<"log_usage">>), 200,
                        Val(ai.extraction),
                        log_usage(DB, Val(current_user.user).id, provider.provider_name,
                                  "url", ai.total_tokens, TRUE, now))
            ELSE /\ Answer(op, access_token, Some(args(calls \o <<"log_usage">>)),
                           Response(422, "Could not extract recipe from URL: "
                                         \o Val(ai.raised).message, None))
                 /\ Commit(log_usage(DB, Val(current_user.user).id,
                                     provider.provider_name, "url", None, FALSE, now))
        fall_back(calls, looked_up) ==
            IF looked_up.raised # None
            THEN Raise(op, access_token, args(calls),
                       HTTPException(503, "AI service not configured. Please configure an AI provider in admin settings."))
            ELSE extract(calls \o <<"extract_recipe_from_text">>, Val(looked_up.provider))
        with_content(fetch_calls, schema) ==
            LET calls == IF schema.tried
                         THEN fetch_calls \o <<"map_schema_org_to_extraction">>
                         ELSE fetch_calls
            IN  IF schema.tried /\ schema.raised = None
                THEN Return(op, access_token, args(calls), 200,
                            Val(schema.extraction), DB)
                ELSE IF schema.tried /\ Val(schema.raised).type # "ValueError"
                THEN Raise(op, access_token, args(calls),
                           HTTPException(500, "Internal Server Error"))
                ELSE fall_back(calls \o <<"get_ai_provider">>, get_ai_provider(DB))
        fetch(calls) ==
            IF fetched.raised # None
            THEN Raise(op, access_token, args(calls),
                       HTTPException(422,
                           (IF Val(fetched.raised).type = "UrlFetchError"
                            THEN "Could not fetch URL: " ELSE "Access blocked: ")
                           \o Val(fetched.raised).message))
            ELSE with_content(calls, schema_org(Val(fetched.url_content)))
    IN  IF current_user.raised # None
        THEN Refuse(op, access_token, Val(current_user.raised))
        ELSE fetch(<<"fetch_url_content">>)

--------------------------------------------------------------------------
(* services/ai/base.py: with_retry                                         *)

MaxRetries == 2

\* str.lower() of one character and of a string
lower_char(c) ==
    LET upper == <<"A", "B", "C", "D", "E", "F", "G", "H", "I", "J", "K", "L", "M",
                   "N", "O", "P", "Q", "R", "S", "T", "U", "V", "W", "X", "Y", "Z">>
        lowers == <<"a", "b", "c", "d", "e", "f", "g", "h", "i", "j", "k", "l", "m",
                    "n", "o", "p", "q", "r", "s", "t", "u", "v", "w", "x", "y", "z">>
    IN  IF \E i \in 1..26 : upper[i] = c
        THEN lowers[CHOOSE i \in 1..26 : upper[i] = c]
        ELSE c
RECURSIVE lower_from(_, _)
lower_from(s, i) ==
    IF i > Len(s) THEN "" ELSE lower_char(SubSeq(s, i, i)) \o lower_from(s, i + 1)
lower(s) == lower_from(s, 1)

\* term in s
contains(s, term) ==
    \E i \in 1..(Len(s) - Len(term) + 1) : SubSeq(s, i, i + Len(term) - 1) = term

\* is_transient_error: the message names a network trouble, a 5xx status
\* or a rate limit
is_transient_error(error) ==
    \E error_str \in {lower(error.message)} :
        \/ \E term \in {"connection", "timeout", "network", "temporary", "unavailable"} :
              contains(error_str, term)
        \/ \E code \in {"500", "502", "503", "504"} : contains(error_str, code)
        \/ contains(error_str, "429")
        \/ contains(error_str, "rate limit")

\* What a call of operation() comes to: a result, or an exception: an
\* AIExtractionError, another Exception, or a BaseException that
\* `except Exception` does not catch.
OperationOutcomes ==
    { [raised |-> None, value |-> Some("extraction")] }
    \cup { [raised |-> Some(Exception(type, message)), value |-> None] :
              type \in {"AIExtractionError", "RuntimeError"},
              message \in {"Connection reset by peer", "Error code: 503",
                           "Invalid API key"} }
    \cup { [raised |-> Some(Exception("AIExtractionError", "Empty response from OpenAI")),
            value |-> None],
           [raised |-> Some(Exception("CancelledError", "Request timeout")),
            value |-> None] }

\* except AIExtractionError / except Exception: the handler catches e
caught(e) == e.type # "CancelledError"

\* A faulty variant: the last attempt is retried as well
should_retry_once_more(e, attempt, max_retries) ==
    is_transient_error(e) /\ attempt <= max_retries

\* is_transient_error(e) and attempt < max_retries
should_retry(e, attempt, max_retries) ==
    is_transient_error(e) /\ attempt < max_retries

\* The coroutine with_retry(operation, max_retries) at its start.
with_retry(max_retries) ==
    [name |-> "with_retry", pc |-> "for", max_retries |-> max_retries, attempt |-> 0,
     last_error |-> None, outcomes |-> <<>>, returned |-> None, raised |-> None]

\* One turn of `for attempt in range(max_retries + 1)` of the coroutine t,
\* outcome being what operation() comes to in it; after the last turn the
\* raise behind the loop.
with_retry_attempt(t, outcome) ==
    LET called == [t EXCEPT !.outcomes = Append(@, outcome)]
        e == Val(outcome.raised)
    IN  IF t.attempt >= t.max_retries + 1
        THEN [t EXCEPT !.pc = "raised",
                       !.raised = Some(Exception("AIExtractionError",
                           "All retry attempts failed: "
                           \o (IF t.last_error = None THEN "None"
                               ELSE Val(t.last_error).message)))]
        ELSE IF outcome.raised = None
        THEN [called EXCEPT !.pc = "returned", !.returned = outcome.value]
        ELSE IF caught(e) /\ should_retry(e, t.attempt, t.max_retries)
        THEN [called EXCEPT !.last_error = Some(e), !.attempt = @ + 1]
        ELSE [called EXCEPT !.pc = "raised", !.raised = Some(e)]

--------------------------------------------------------------------------
(* routers/backup_router.py among the other requests                       *)

\* The recipe_ids query parameter of an export: absent, or ids of which
\* one names no recipe.
RecipeIds == {None, Some(<<5>>), Some(<<6, 0>>)}

\* GET /api/backup/export
export_recipes_endpoint(access_token, recipe_ids) ==
    LET current_user == require_admin(access_token, users)
    IN  IF current_user.raised # None
        THEN Refuse("export_recipes", access_token, Val(current_user.raised))
        ELSE Return("export_recipes", access_token, recipe_ids, 200,
                    export_recipes(DB, users, recipe_ids), DB)

\* The files uploaded among the other requests: one record that names a
\* category and tags, one that cannot be imported, and a file that is not
\* a backup.
ApiFileContents ==
    { [json |-> Some([metadata |-> [format_version |-> "1.0", recipe_count |-> 1],
                      recipes |-> <<MkBackupRecipe("A", FullContent, Some("medium"),
                                                   Some("Mains"), <<"sweet", "quick">>)>>])],
      [json |-> Some([metadata |-> [format_version |-> "1.0", recipe_count |-> 1],
                      recipes |-> <<MkBackupRecipe("B", BareContent,
                                                   Some("invalid_complexity"),
                                                   None, <<>>)>>])],
      [json |-> Some(WrongShape)] }

--------------------------------------------------------------------------
(* The requests as actions                                                 *)

\* The database the requests start from: the two users alone, or the two
\* users with two recipes, a category, a tag, a configured AI provider and
\* the usage log of one AI import.
ApiSeedDatabases ==
    LET bare == [users |-> SeedUsers, recipes |-> {}, categories |-> {}, tags |-> {},
                 settings |-> {}, ai_usage_logs |-> {}, nextId |-> 3]
        configured == set_setting(set_setting(bare, AI_PROVIDER_KEY, Some("openai"), FALSE),
                                  OPENAI_API_KEY, Some("sk-openai"), TRUE)
    IN  { bare,
          [configured EXCEPT
              !.recipes = {SeedRecipeA, StoredRecipe(6, "A (3)", None, {}, 1)},
              !.categories = {[id |-> 3, name |-> "Desserts",
                               description |-> Some("Sweet things")]},
              !.tags = {[id |-> 4, name |-> "sweet"]},
              !.ai_usage_logs = {AIUsageLog(7, Some(2), "openai", "text", Some(120),
                                            TRUE, 0)},
              !.nextId = 8] }

InitApi ==
    /\ \E d \in ApiSeedDatabases :
          /\ users = d.users
          /\ recipes = d.recipes
          /\ categories = d.categories
          /\ tags = d.tags
          /\ settings = d.settings
          /\ ai_usage_logs = d.ai_usage_logs
          /\ nextId = d.nextId
    /\ served = 0
    /\ imp = IdleImport
    /\ req = NoRequest
    /\ resp = None
    /\ tasks = NoTasks

Register == CanServe /\ \E user_data \in UserCreates : register(user_data)

Logout == CanServe /\ \E access_token \in ApiCookies : logout(access_token)

RefreshToken == CanServe /\ \E token \in RefreshCookies : refresh_token(token)

GetCurrentUserInfo ==
    CanServe /\ \E access_token \in ApiCookies : get_current_user_info(access_token)

ListUsers == CanServe /\ \E access_token \in ApiCookies : list_users(access_token)

GetUser ==
    /\ CanServe
    /\ \E access_token \in ApiCookies, user_id \in IdsOf(users) :
          get_user(access_token, user_id)

CreateUser ==
    /\ CanServe
    /\ \E access_token \in ApiCookies, user_data \in UserCreates :
          admin_create_user(access_token, user_data)

UpdateUser ==
    /\ CanServe
    /\ \E access_token \in ApiCookies, user_id \in IdsOf(users), user_data \in UserUpdates :
          update_user(access_token, user_id, user_data)

DeleteUser ==
    /\ CanServe
    /\ \E access_token \in ApiCookies, user_id \in IdsOf(users) :
          delete_user(access_token, user_id)

GetSettings == CanServe /\ \E access_token \in ApiCookies : get_settings(access_token)

\* valid: the providers whose key validate_api_key accepts at this moment
UpdateSettings ==
    /\ CanServe
    /\ \E access_token \in ApiCookies, settings_data \in SettingsUpdates,
          valid \in Validations :
          update_settings(access_token, settings_data, valid)

ExportRecipes ==
    /\ CanServe
    /\ \E access_token \in ApiCookies, recipe_ids \in RecipeIds :
          export_recipes_endpoint(access_token, recipe_ids)

ImportRecipes ==
    /\ CanServe
    /\ \E access_token \in ApiCookies, content \in ApiFileContents,
          conflict_strategy \in ConflictStrategy :
          import_recipes(access_token, Some("backup.json"), content, conflict_strategy, None)

GetUsageLogs ==
    /\ CanServe
    /\ \E access_token \in ApiCookies, page \in {1, 2}, user_id \in {None, Some(2)} :
          get_usage_logs_endpoint(access_token, page, 20, user_id)

GetUsageSummary ==
    CanServe /\ \E access_token \in ApiCookies : get_usage_summary_endpoint(access_token)

DeleteUsageLogs ==
    /\ CanServe
    /\ \E access_token \in ApiCookies, retention_days \in RetentionDays, now \in Clock :
          delete_usage_logs(access_token, retention_days, now)

CreateCategory ==
    /\ CanServe
    /\ \E access_token \in ApiCookies, category_data \in CategoryCreates :
          create_category(access_token, category_data)

UpdateCategory ==
    /\ CanServe
    /\ \E access_token \in ApiCookies, category_id \in IdsOf(categories),
          category_data \in CategoryUpdates :
          update_category(access_token, category_id, category_data)

DeleteCategory ==
    /\ CanServe
    /\ \E access_token \in ApiCookies, category_id \in IdsOf(categories) :
          delete_category(access_token, category_id)

CreateTag ==
    /\ CanServe
    /\ \E access_token \in ApiCookies, tag_data \in TagCreates :
          create_tag(access_token, tag_data)

DeleteTag ==
    /\ CanServe
    /\ \E access_token \in ApiCookies, tag_id \in IdsOf(tags) : delete_tag(access_token, tag_id)

NextApi ==
    \/ Register \/ Logout \/ RefreshToken \/ GetCurrentUserInfo
    \/ ListUsers \/ GetUser \/ CreateUser \/ UpdateUser \/ DeleteUser
    \/ GetSettings \/ UpdateSettings
    \/ ExportRecipes \/ ImportRecipes \/ ImportRecord \/ ImportCommit
    \/ GetUsageLogs \/ GetUsageSummary \/ DeleteUsageLogs
    \/ CreateCategory \/ UpdateCategory \/ DeleteCategory
    \/ CreateTag \/ DeleteTag

SpecApi == InitApi /\ [][NextApi]_vars

--------------------------------------------------------------------------
(* The recipe endpoints, among the requests that delete what recipes refer *)
(* to.                                                                     *)

GetRecipe ==
    /\ CanServe
    /\ \E access_token \in ApiCookies, recipe_id \in IdsOf(recipes) :
          get_recipe(access_token, recipe_id)

CreateRecipe ==
    /\ CanServe
    /\ \E access_token \in ApiCookies, recipe_data \in RecipeCreates :
          create_recipe(access_token, recipe_data)

UpdateRecipe ==
    /\ CanServe
    /\ \E access_token \in ApiCookies, recipe_id \in IdsOf(recipes),
          recipe_data \in RecipeUpdates :
          update_recipe(access_token, recipe_id, recipe_data)

DeleteRecipe ==
    /\ CanServe
    /\ \E access_token \in ApiCookies, recipe_id \in IdsOf(recipes) :
          delete_recipe(access_token, recipe_id)

NextRecipes ==
    \/ GetRecipe \/ CreateRecipe \/ UpdateRecipe \/ DeleteRecipe
    \/ DeleteUser \/ DeleteCategory \/ DeleteTag

SpecRecipes == InitApi /\ [][NextRecipes]_vars

--------------------------------------------------------------------------
(* The URL import, among the requests that change the AI configuration     *)

ImportFromUrl ==
    /\ CanServe
    /\ \E access_token \in ApiCookies, fetched \in Fetches, ai \in AIExtractions,
          now \in Clock :
          import_from_url(access_token, fetched, ai, now)

NextImport == ImportFromUrl \/ UpdateSettings

SpecImport == InitApi /\ [][NextImport]_vars

--------------------------------------------------------------------------
(* The requests of a session, among those that change the user table       *)

NextSession == Logout \/ RefreshToken \/ GetCurrentUserInfo \/ UpdateUser \/ DeleteUser

SpecSession == InitApi /\ [][NextSession]_vars

--------------------------------------------------------------------------
(* Admin-only requests made with the cookies of earlier logins             *)

\* The two users have logged in before: their clients hold the access
\* tokens issued then, each with the role its user had.
InitRoles ==
    /\ \E d \in ApiSeedDatabases :
          /\ users = d.users
          /\ recipes = d.recipes
          /\ categories = d.categories
          /\ tags = d.tags
          /\ settings = d.settings
          /\ ai_usage_logs = d.ai_usage_logs
          /\ nextId = d.nextId
    /\ served = 0
    /\ imp = IdleImport
    /\ req = NoRequest
    /\ resp = None
    /\ tasks = <<[name |-> "clients",
                  access_tokens |-> {Some(create_access_token(u.id, u.role)) :
                                        u \in SeedUsers}]>>

Login == CanServe /\ \E credentials \in UserLogins : login(credentials)

NextRoles ==
    \/ Login
    \/ ListUsers \/ GetUser \/ CreateUser \/ UpdateUser \/ DeleteUser
    \/ GetSettings \/ UpdateSettings
    \/ ExportRecipes \/ ImportRecipes \/ ImportRecord \/ ImportCommit
    \/ GetUsageLogs \/ GetUsageSummary \/ DeleteUsageLogs
    \/ CreateCategory \/ UpdateCategory \/ DeleteCategory
    \/ CreateTag \/ DeleteTag

SpecRoles == InitRoles /\ [][NextRoles]_vars

--------------------------------------------------------------------------
(* A backup taken from one instance and restored on another                *)

\* The instance the backup is taken from: no recipe; "A" with a category
\* and a tag and "A (3)" without; "A (2)" and a bare "A" sharing a
\* category and a tag; two recipes titled "A".
SourceDatabases ==
    LET cats == {[id |-> 3, name |-> "Desserts", description |-> Some("Sweet things")]}
        tgs  == {[id |-> 4, name |-> "sweet"], [id |-> 8, name |-> "quick"]}
        bare == [[f \in DOMAIN SeedRecipeA |->
                     IF f \in DOMAIN BareContent THEN BareContent[f] ELSE SeedRecipeA[f]]
                 EXCEPT !.id = 6, !.complexity = None, !.tags = {8}, !.user_id = 1]
        db(rs) == [users |-> SeedUsers, recipes |-> rs, categories |-> cats, tags |-> tgs,
                   settings |-> {}, ai_usage_logs |-> {}, nextId |-> 9]
    IN  { db({}),
          db({SeedRecipeA, StoredRecipe(6, "A (3)", None, {}, 1)}),
          db({StoredRecipe(5, "A (2)", Some(3), {4, 8}, 2), bare}),
          db({SeedRecipeA, StoredRecipe(6, "A", None, {}, 1)}) }

\* The instance it is restored on has no recipe: no category and no tag
\* either; a category and a tag of the same names under other ids; other
\* categories and tags.
TargetDatabases ==
    { [categories |-> {}, tags |-> {}, nextId |-> 3],
      [categories |-> {[id |-> 9, name |-> "Desserts", description |-> None],
                       [id |-> 10, name |-> "Mains", description |-> None]},
       tags |-> {[id |-> 11, name |-> "sweet"]}, nextId |-> 12],
      [categories |-> {[id |-> 3, name |-> "Mains", description |-> None]},
       tags |-> {[id |-> 4, name |-> "quick"]}, nextId |-> 5] }

InitRoundTrip ==
    /\ users = SeedUsers
    /\ recipes = {}
    /\ \E d \in TargetDatabases :
          /\ categories = d.categories
          /\ tags = d.tags
          /\ nextId = d.nextId
    /\ settings = {}
    /\ ai_usage_logs = {}
    /\ served = 0
    /\ imp = IdleImport
    /\ req = NoRequest
    /\ resp = None
    /\ \E source \in SourceDatabases :
          tasks = <<[name |-> "backup", source |-> source, file |-> None]>>

\* GET /api/backup/export on the source instance: the client keeps the file.
ExportSource ==
    /\ tasks[1].file = None
    /\ tasks' = <<[tasks[1] EXCEPT
                      !.file = Some(export_all_recipes(tasks[1].source,
                                                       tasks[1].source.users))]>>
    /\ UNCHANGED <<users, recipes, categories, tags, settings, ai_usage_logs, nextId,
                   served, imp, req, resp>>

\* POST /api/backup/import of that file on the target instance.
ImportExported ==
    /\ imp.pc = "idle"
    /\ tasks[1].file # None
    /\ \E access_token \in BackupCookies, conflict_strategy \in ConflictStrategy :
          import_recipes(access_token, Some("backup.json"), [json |-> tasks[1].file],
                         conflict_strategy, None)

NextRoundTrip == ExportSource \/ ImportExported \/ ImportRecord \/ ImportCommit

SpecRoundTrip == InitRoundTrip /\ [][NextRoundTrip]_vars

--------------------------------------------------------------------------
(* One call of with_retry                                                  *)

InitRetry ==
    /\ users = {}
    /\ recipes = {}
    /\ categories = {}
    /\ tags = {}
    /\ settings = {}
    /\ ai_usage_logs = {}
    /\ nextId = 1
    /\ served = 0
    /\ imp = IdleImport
    /\ req = NoRequest
    /\ resp = None
    /\ \E max_retries \in -1..MaxRetries : tasks = <<with_retry(max_retries)>>

WithRetryAttempt ==
    /\ tasks # NoTasks
    /\ tasks[1].pc = "for"
    /\ \E outcome \in OperationOutcomes :
          tasks' = <<with_retry_attempt(tasks[1], outcome)>>
    /\ UNCHANGED <<users, recipes, categories, tags, settings, ai_usage_logs, nextId,
                   served, imp, req, resp>>

NextRetry == WithRetryAttempt

\* The event loop resumes a coroutine that can go on.
SpecRetry == InitRetry /\ [][NextRetry]_vars /\ WF_vars(NextRetry)

--------------------------------------------------------------------------
(* A history of registrations on an empty database                         *)

MaxRegistrations == 4

InitRegister ==
    /\ users = {}
    /\ recipes = {}
    /\ categories = {}
    /\ tags = {}
    /\ settings = {}
    /\ ai_usage_logs = {}
    /\ nextId = 1
    /\ served = 0
    /\ imp = IdleImport
    /\ req = NoRequest
    /\ resp = None
    /\ tasks = NoTasks

RegisterNext ==
    /\ served < MaxRegistrations
    /\ \E user_data \in UserCreates : register(user_data)

NextRegister == RegisterNext

SpecRegister == InitRegister /\ [][NextRegister]_vars

--------------------------------------------------------------------------
(* Registrations served side by side on an empty database                  *)

MaxInFlight == 3

\* A register request that has arrived: the statement it is at, and the
\* locals of register and create_user.
register_task(user_data) ==
    [name |-> "register", pc |-> "get_user_by_username", user_data |-> user_data,
     user_count |-> None, response |-> None]

\* The unique indexes of users.username and users.email refuse the row.
violates_unique(us, user) ==
    \E u \in us : u.username = user.username \/ u.email = user.email

\* The next statement of the register request t on the tables as they are
\* committed at this moment: the task after it and the rows of users.
register_statement(t, us, id) ==
    IF t.pc = "get_user_by_username"
    THEN IF get_user_by_username(us, t.user_data.username) # {None}
         THEN [task |-> [t EXCEPT !.pc = "done",
                                  !.response = ErrorResponse(
                                      HTTPException(400, "Username already registered"))],
               users |-> us]
         ELSE [task |-> [t EXCEPT !.pc = "get_user_by_email"], users |-> us]
    ELSE IF t.pc = "get_user_by_email"
    THEN IF get_user_by_email(us, t.user_data.email) # {None}
         THEN [task |-> [t EXCEPT !.pc = "done",
                                  !.response = ErrorResponse(
                                      HTTPException(400, "Email already registered"))],
               users |-> us]
         ELSE [task |-> [t EXCEPT !.pc = "count"], users |-> us]
    ELSE IF t.pc = "count"
    THEN [task |-> [t EXCEPT !.pc = "commit", !.user_count = Some(Cardinality(us))],
          users |-> us]
    ELSE LET role == IF Val(t.user_count) = 0 THEN "admin" ELSE "standard"
             user == [id |-> id, username |-> t.user_data.username,
                      email |-> t.user_data.email,
                      hashed_password |-> hash_password(t.user_data.password),
                      role |-> role]
         IN  IF violates_unique(us, user)
             THEN [task |-> [t EXCEPT !.pc = "done",
                                      !.response = ErrorResponse(
                                          HTTPException(500, "Internal Server Error"))],
                   users |-> us]
             ELSE [task |-> [t EXCEPT !.pc = "done",
                                      !.response = Response(201, "",
                                          [message |-> "User registered successfully",
                                           role |-> role])],
                   users |-> us \cup {user}]

RegisterArrives ==
    /\ Len(tasks) < MaxInFlight
    /\ \E user_data \in UserCreates : tasks' = Append(tasks, register_task(user_data))
    /\ UNCHANGED <<users, recipes, categories, tags, settings, ai_usage_logs, nextId,
                   served, imp, req, resp>>

RegisterStatement ==
    \E i \in 1..Len(tasks) :
        /\ tasks[i].pc # "done"
        /\ \E out \in {register_statement(tasks[i], users, nextId)} :
              /\ tasks' = [tasks EXCEPT ![i] = out.task]
              /\ users' = out.users
              /\ nextId' = IF out.users = users THEN nextId ELSE nextId + 1
        /\ UNCHANGED <<recipes, categories, tags, settings, ai_usage_logs,
                       served, imp, req, resp>>

NextInFlight == RegisterArrives \/ RegisterStatement

SpecInFlight == InitRegister /\ [][NextInFlight]_vars

--------------------------------------------------------------------------
(* Properties of one loop iteration of the backup import                   *)

TitlesOf(rs) == {r.title : r \in rs}

\* The name of the category a recipe row is linked to, and its tags' names.
CategoryNameOf(cats, recipe) ==
    LET category == {c \in cats : Some(c.id) = recipe.category_id}
    IN  IF category = {} THEN None ELSE Some((CHOOSE c \in category : TRUE).name)
TagNamesOf(tgs, recipe) == {t.name : t \in {x \in tgs : x.id \in recipe.tags}}

\* The loop is at a record, and the record it is at.
Importing == imp.pc = "importing" /\ imp.i <= Len(imp.recipes_to_import)
CurrentRecord == imp.recipes_to_import[imp.i]
\* A step that is one loop iteration.
RecordStep == Importing /\ imp'.i = imp.i + 1
\* The recipes that have the current record's title.
Conflicting == {r \in recipes : r.title = CurrentRecord.title}
\* The record's complexity is absent or names an enum member, so that
\* processing it raises no error.
ValidRecord(rec) == ~Truthy(rec.complexity) \/ Val(rec.complexity) \in RecipeComplexity

\* Exactly one row is added to recipes, with the given title.
OneRecipeCreated(title) ==
    \E r \in recipes' :
        /\ r \notin recipes
        /\ r.id \notin {x.id : x \in recipes}
        /\ recipes' = recipes \cup {r}
        /\ r.title = title

\* C1: under skip, a record whose title some recipe has leaves the recipes
\* as they are and adds one to skipped (and nothing to created); a record
\* whose title no recipe has (and that raises no error) adds exactly one
\* recipe, of that title, and one to created.
C1_SkipStrategy ==
    [][ (RecordStep /\ imp.conflict_strategy = "skip") =>
          IF Conflicting # {}
          THEN /\ recipes' = recipes
               /\ imp'.result.skipped = imp.result.skipped + 1
               /\ imp'.result.created = imp.result.created
          ELSE ValidRecord(CurrentRecord) =>
               /\ OneRecipeCreated(CurrentRecord.title)
               /\ imp'.result.created = imp.result.created + 1
               /\ imp'.result.skipped = imp.result.skipped ]_vars

\* A skip import has answered, having skipped one record and created one.
C1_Witness ==
    /\ imp.pc = "done" /\ resp # None /\ Val(resp).status_code = 200
    /\ imp.conflict_strategy = "skip"
    /\ imp.result.skipped = 1 /\ imp.result.created = 1
    /\ "B" \in TitlesOf(recipes) /\ "B" \notin TitlesOf(req.before.recipes)

\* C2: under replace, a record (raising no error) whose title an existing
\* recipe has overwrites that recipe: same id and title, the record's data,
\* complexity, category and tags, the importing user as owner; the number of
\* recipes stays, replaced grows by one, created does not grow.
C2_ReplaceStrategy ==
    [][ (/\ RecordStep
         /\ imp.conflict_strategy = "replace"
         /\ Conflicting # {}
         /\ ValidRecord(CurrentRecord)) =>
          /\ \E e \in Conflicting : \E u \in recipes' :
                /\ recipes' = (recipes \ {e}) \cup {u}
                /\ u.id = e.id
                /\ u.title = e.title
                /\ \A f \in ContentFields : u[f] = CurrentRecord[f]
                /\ u.complexity = CurrentRecord.complexity
                /\ u.user_id = imp.importing_user_id
                /\ CategoryNameOf(categories', u) = CurrentRecord.category_name
                /\ TagNamesOf(tags', u) = Range(CurrentRecord.tag_names)
          /\ Cardinality(recipes') = Cardinality(recipes)
          /\ imp'.result.replaced = imp.result.replaced + 1
          /\ imp'.result.created = imp.result.created ]_vars

\* A replace import has answered: the seeded recipe "A" (id 5, of user 2, with
\* category and tag) now holds a bare record's data and belongs to the admin.
C2_Witness ==
    /\ imp.pc = "done" /\ resp # None /\ Val(resp).status_code = 200
    /\ imp.conflict_strategy = "replace"
    /\ imp.result.replaced >= 1
    /\ \E r \in recipes :
          /\ r.id = 5 /\ r.title = "A" /\ r.user_id = 1
          /\ r.description = None /\ r.category_id = None /\ r.tags = {}

Renamed(title, n) == title \o " (" \o ToString(n) \o ")"

\* C3: under rename, a record (raising no error) of title T that an existing
\* recipe has creates one recipe titled "T (n)", n the smallest integer >= 2
\* for which no recipe is titled "T (n)"; the existing recipes stay as they
\* are and created grows by one.
C3_RenameStrategy ==
    [][ (/\ RecordStep
         /\ imp.conflict_strategy = "rename"
         /\ Conflicting # {}
         /\ ValidRecord(CurrentRecord)) =>
          \E n \in 2..(Cardinality(recipes) + 2) :
             /\ Renamed(CurrentRecord.title, n) \notin TitlesOf(recipes)
             /\ \A m \in 2..(n - 1) : Renamed(CurrentRecord.title, m) \in TitlesOf(recipes)
             /\ OneRecipeCreated(Renamed(CurrentRecord.title, n))
             /\ imp'.result.created = imp.result.created + 1 ]_vars

\* A rename import into the database holding "A" and "A (3)" has created
\* "A (2)" and then "A (4)".
C3_Witness ==
    /\ imp.pc = "done" /\ resp # None /\ Val(resp).status_code = 200
    /\ imp.conflict_strategy = "rename"
    /\ imp.result.created = 2
    /\ {"A", "A (2)", "A (3)", "A (4)"} \subseteq TitlesOf(recipes)

UniqueNames(rows) == \A x, y \in rows : x.name = y.name => x = y

\* C5: a record that is not skipped gets or creates its category and tags by
\* name: existing rows stay, exactly one row is added per name that had none
\* and the counters grow by exactly that many (so names stay unique, also
\* over several records), and the recipe written for the record is linked
\* to the category and the tags of those names and no others.
C5_GetOrCreateByName ==
    /\ [](UniqueNames(categories) /\ UniqueNames(tags))
    /\ [][ (RecordStep /\ ~(imp.conflict_strategy = "skip" /\ Conflicting # {})) =>
          LET rec == CurrentRecord
              new_category == IF /\ Truthy(rec.category_name)
                                 /\ \A c \in categories : c.name # Val(rec.category_name)
                              THEN {Val(rec.category_name)} ELSE {}
              new_tags == {n \in Range(rec.tag_names) : \A t \in tags : t.name # n}
          IN  /\ categories \subseteq categories'
              /\ {c.name : c \in categories' \ categories} = new_category
              /\ Cardinality(categories' \ categories) = Cardinality(new_category)
              /\ imp'.result.categories_created =
                     imp.result.categories_created + Cardinality(new_category)
              /\ tags \subseteq tags'
              /\ {t.name : t \in tags' \ tags} = new_tags
              /\ Cardinality(tags' \ tags) = Cardinality(new_tags)
              /\ imp'.result.tags_created = imp.result.tags_created + Cardinality(new_tags)
              /\ ValidRecord(rec) =>
                    /\ recipes' # recipes \/ imp.conflict_strategy = "replace"
                    /\ \A r \in recipes' \ recipes :
                          /\ CategoryNameOf(categories', r) = rec.category_name
                          /\ TagNamesOf(tags', r) = Range(rec.tag_names) ]_vars

\* An import of two records that both name the category "Desserts" and the
\* tags "sweet" and "quick" has answered: it reused the category and the tag
\* "sweet", created the tag "quick" once, and linked both recipes to them.
C5_Witness ==
    /\ imp.pc = "done" /\ resp # None /\ Val(resp).status_code = 200
    /\ req.before.tags # {}
    /\ imp.result.categories_created = 0 /\ imp.result.tags_created = 1
    /\ Cardinality(categories) = 1 /\ Cardinality(tags) = 2
    /\ Cardinality({r \in recipes \ req.before.recipes :
                       /\ CategoryNameOf(categories, r) = Some("Desserts")
                       /\ TagNamesOf(tags, r) = {"sweet", "quick"}}) = 2

--------------------------------------------------------------------------
(* Properties of a whole import request                                    *)

Answered(status_code) == resp # None /\ Val(resp).status_code = status_code
ImportAnswered == req.op = "import_recipes" /\ imp.pc = "done" /\ Answered(200)

\* The records of s at the indices in keep, in order.
RECURSIVE Keep(_, _, _)
Keep(s, keep, i) ==
    IF i > Len(s) THEN <<>>
    ELSE (IF i \in keep THEN <<s[i]>> ELSE <<>>) \o Keep(s, keep, i + 1)

\* A recipe row without its keys: what it holds and the names it is linked to.
RecipeOutcome(d, r) ==
    [r EXCEPT !.id = 0,
              !.category_id = CategoryNameOf(d.categories, r),
              !.tags = TagNamesOf(d.tags, r)]
Outcomes(d) == {RecipeOutcome(d, r) : r \in d.recipes}

TitlesDistinct(rs) == \A x, y \in rs : x.title = y.title => x = y

\* The import of the request's records, and the import of the same records
\* without those that raised an error, both on the database the request found.
WithFailing ==
    import_all(req.before, new_import_result(0, 0), imp.recipes_to_import, 1,
               imp.importing_user_id, imp.conflict_strategy, {})
WithoutFailing ==
    import_all(req.before, new_import_result(0, 0),
               Keep(imp.recipes_to_import,
                    (1..Len(imp.recipes_to_import)) \ WithFailing.raised_at, 1),
               1, imp.importing_user_id, imp.conflict_strategy, {})

\* What C4 says of errors and recipes: one error and one error_details entry
\* (with the record's title) per failing record, and the recipes and the
\* counters created, skipped, replaced are those of the import without the
\* failing records.
ErrorsIsolatedFromRecipes ==
    (ImportAnswered /\ TitlesDistinct(req.before.recipes)) =>
        LET failing == WithFailing.raised_at
            failed  == Keep(imp.recipes_to_import, failing, 1)
        IN  /\ imp.result.errors = Cardinality(failing)
            /\ Len(imp.result.error_details) = Cardinality(failing)
            /\ \A k \in 1..Len(failed) :
                  imp.result.error_details[k].title = failed[k].title
            /\ Outcomes(DB) = Outcomes(WithoutFailing.db)
            /\ imp.result.created = WithoutFailing.result.created
            /\ imp.result.skipped = WithoutFailing.result.skipped
            /\ imp.result.replaced = WithoutFailing.result.replaced

\* C4: a record whose processing raises an error counts one error with one
\* error_details entry of its title, writes no recipe, and leaves the other
\* records' outcome and the counters created, skipped, replaced,
\* categories_created and tags_created as they are without that record.
C4_ErrorIsolation ==
    /\ ErrorsIsolatedFromRecipes
    /\ (ImportAnswered /\ TitlesDistinct(req.before.recipes)) =>
          /\ imp.result.categories_created = WithoutFailing.result.categories_created
          /\ imp.result.tags_created = WithoutFailing.result.tags_created

\* The request's file name or content fails one of the upload checks.
BadFileName == req.filename = None \/ ~EndsWith(Val(req.filename), ".json")
BadJson == req.content.json = None
BadShape == ~BadJson /\ ~({"metadata", "recipes"} \subseteq DOMAIN Val(req.content.json))
ByAdmin == require_admin(req.access_token, users).raised = None

--------------------------------------------------------------------------
(* Properties of the export, of the admin-only requests and of             *)
(* registration                                                            *)

\* The entry of an export stands for the recipe row: its title, the name of
\* its category (or None), the names of all its tags, its owner's username.
ExportedAs(d, recipe, entry) ==
    /\ entry.title = recipe.title
    /\ entry.category_name = CategoryNameOf(d.categories, recipe)
    /\ Range(entry.tag_names) = TagNamesOf(d.tags, recipe)
    /\ Len(entry.tag_names) = Cardinality(recipe.tags)
    /\ \E u \in d.users : u.id = recipe.user_id /\ entry.original_author = u.username

AdminOperations ==
    {"list_users", "get_user", "create_user", "update_user", "delete_user",
     "get_settings", "update_settings", "export_recipes", "import_recipes",
     "get_usage_logs", "get_usage_summary", "delete_usage_logs",
     "create_category", "update_category", "delete_category",
     "create_tag", "delete_tag"}

\* The cookie is an access token that verifies and names a user of us.
ValidAccessToken(access_token, us) ==
    /\ access_token # None
    /\ Val(access_token).verifies
    /\ Val(access_token).type = "access"
    /\ Val(access_token).sub # None
    /\ \E u \in us : u.id = Val(Val(access_token).sub)
RoleOf(access_token, us) ==
    (CHOOSE u \in us : u.id = Val(Val(access_token).sub)).role

\* The body of the request served last has not run: it has read no
\* parameter, no import has started, and the database is as it was.
BodyNotRun ==
    /\ IF req.op = "import_recipes" THEN imp = [IdleImport EXCEPT !.pc = "done"]
       ELSE req.args = None
    /\ DB = req.before

\* C7: an admin-only request without a valid access token is answered 401,
\* one of a user whose role is not admin is answered 403 "Admin access
\* required"; in both cases the body has not run and no stored data changed.
C7_AdminOnly ==
    req.op \in AdminOperations =>
        /\ ~ValidAccessToken(req.access_token, req.before.users) =>
              Answered(401) /\ BodyNotRun
        /\ /\ ValidAccessToken(req.access_token, req.before.users)
           /\ RoleOf(req.access_token, req.before.users) # "admin"
           => resp = Response(403, "Admin access required", None) /\ BodyNotRun

\* The standard user has asked to delete the admin and was answered 403;
\* the admin is still there.
C7_Witness ==
    /\ req.op = "delete_user"
    /\ req.access_token = Some(Token("access", Some(2), TRUE))
    /\ Answered(403)
    /\ \E u \in users : u.id = 1 /\ u.role = "admin"
    /\ \E u \in users : u.id = 2 /\ u.role = "standard"

\* A step of create_user: the user it adds is admin if and only if the
\* table was empty.
CreateUserStep ==
    \A u \in users' \ users : u.role = (IF users = {} THEN "admin" ELSE "standard")

\* The user registered first (ids grow with the time of creation).
FirstRegistered == CHOOSE u \in users : \A v \in users : u.id <= v.id

\* C10: create_user gives the role admin to a user created while the table
\* is empty and standard to a user created while it is not; so in a history
\* of registrations on an empty table exactly the first registered user is
\* admin.
C10_FirstUserAdmin ==
    /\ [][CreateUserStep]_vars
    /\ [](users # {} => {u \in users : u.role = "admin"} = {FirstRegistered})

\* Three users have registered: the first is admin, the other two are not.
C10_Witness ==
    /\ req.op = "register" /\ Answered(201)
    /\ Val(resp).body.role = "standard"
    /\ Cardinality(users) = 3
    /\ {u.id : u \in {x \in users : x.role = "admin"}} = {1}

--------------------------------------------------------------------------
(* Properties of the user table                                            *)

\* No two rows of us share a username or an email.
DistinctUsers(us) ==
    \A u, v \in us : u.id # v.id => u.username # v.username /\ u.email # v.email

\* The body of the request served last has run with parameters args.
BodyRun(op) == req.op = op /\ req.args # None

\* The request served last was answered with the error status_code, detail.
Refused(status_code, detail) == resp = Response(status_code, detail, None)

\* username or email is that of a row of us other than the row with id.
TakenByOther(us, id, username, email) ==
    \E u \in us :
        /\ u.id # id
        /\ \/ username # None /\ u.username = Val(username)
           \/ email # None /\ u.email = Val(email)

\* C11: usernames and emails of the users are pairwise distinct in every
\* state; register and create_user with a username or email already in the
\* table are answered 400 and add no user; update_user of an existing user
\* with a username or email of a different user is answered 400 and leaves
\* the user table as it was.
C11_DistinctUsers ==
    /\ DistinctUsers(users)
    /\ \A op \in {"register", "create_user"} :
          /\ BodyRun(op)
          /\ TakenByOther(req.before.users, 0, Some(Val(req.args).username),
                          Some(Val(req.args).email))
          => Answered(400) /\ users = req.before.users
    /\ /\ BodyRun("update_user")
       /\ \E u \in req.before.users : u.id = Val(req.args).user_id
       /\ TakenByOther(req.before.users, Val(req.args).user_id,
                       Val(req.args).user_data.username, Val(req.args).user_data.email)
       => Answered(400) /\ users = req.before.users

\* The admin has asked to give the admin's row the email of the standard
\* user and was answered 400 "Email already taken".
C11_Witness ==
    /\ BodyRun("update_user")
    /\ Val(req.args).user_id = 1
    /\ Val(req.args).user_data.email = Some("cook@example.com")
    /\ Refused(400, "Email already taken")
    /\ \E u \in users : u.id = 1 /\ u.email = "admin@example.com"
    /\ \E u \in users : u.id = 2 /\ u.email = "cook@example.com"

--------------------------------------------------------------------------
(* Properties of authentication                                            *)

\* The operations whose handler depends on get_current_user, directly or
\* through require_admin.
AuthenticatedOperations ==
    AdminOperations \cup {"logout", "get_current_user_info"}

\* The checks of the cookie in the order of the claim: the detail of the
\* first one that fails on the user table us, or None if none does.
FirstFailedCheck(access_token, us) ==
    CASE access_token = None -> Some("Not authenticated")
      [] access_token # None /\ ~Val(access_token).verifies ->
            Some("Invalid or expired token")
      [] ValidAccessToken(access_token, us) -> None
      [] OTHER ->
            IF Val(access_token).type # "access" THEN Some("Invalid token type")
            ELSE IF Val(access_token).sub = None THEN Some("Invalid token payload")
            ELSE Some("User not found")

\* C12: a request whose handler depends on get_current_user is answered 401
\* with the detail of the first failing check (cookie present, token
\* verifies, type access, subject present, subject a user of the table at
\* the time of the request) and its body does not run; GET /api/auth/me
\* returns a user exactly when no check fails, and then the row whose id is
\* the token's subject.  A token of a user deleted since is refused.
C12_GetCurrentUser ==
    req.op \in AuthenticatedOperations =>
        LET failed == FirstFailedCheck(req.access_token, req.before.users)
        IN  /\ failed # None => Refused(401, Val(failed)) /\ BodyNotRun
            /\ failed = None => ~Answered(401)
            /\ req.op = "get_current_user_info" /\ failed = None =>
                  /\ Answered(200)
                  /\ Val(resp).body \in req.before.users
                  /\ Val(resp).body.id = Val(Val(req.access_token).sub)

\* The standard user has been deleted and then asks who they are with the
\* access token issued before: 401 "User not found".
C12_Witness ==
    /\ req.op = "get_current_user_info"
    /\ req.access_token = Some(Token("access", Some(2), TRUE))
    /\ Refused(401, "User not found")
    /\ \A u \in users : u.id # 2

\* C13: a token of type refresh in the access_token cookie authenticates no
\* request (401, the body does not run) and get_current_user_optional
\* returns None for it; a token of type access in the refresh_token cookie
\* is answered 401 by POST /api/auth/refresh and no access token is issued;
\* an access token is issued only for a refresh token of a user of the table.
C13_TokenTypes ==
    /\ /\ req.op \in AuthenticatedOperations
       /\ req.access_token # None
       /\ Val(req.access_token).type = "refresh"
       => Answered(401) /\ BodyNotRun
    /\ \A access_token \in ApiCookies :
          access_token # None /\ Val(access_token).type = "refresh"
          => get_current_user_optional(access_token, users) = None
    /\ /\ BodyRun("refresh_token")
       /\ Val(req.args) # None
       /\ Val(Val(req.args)).type = "access"
       => Answered(401) /\ Val(resp).body = None
    /\ BodyRun("refresh_token") /\ Answered(200) =>
          /\ Val(Val(req.args)).type = "refresh"
          /\ Val(resp).body.set_cookie.access_token.type = "access"
          /\ Val(resp).body.set_cookie.access_token.sub = Val(Val(req.args)).sub
          /\ \E u \in users : Some(u.id) = Val(Val(req.args)).sub

\* The admin's access token has been presented as the refresh_token cookie
\* and was answered 401 "Invalid refresh token".
C13_Witness ==
    /\ BodyRun("refresh_token")
    /\ Val(req.args) = Some(Token("access", Some(1), TRUE))
    /\ Refused(401, "Invalid refresh token")
    /\ \E u \in users : u.id = 1

--------------------------------------------------------------------------
(* Properties of the recipe endpoints                                      *)

\* The user the request served last was made by (its body has run).
Caller == CHOOSE u \in req.before.users : u.id = Val(Val(req.access_token).sub)

\* The recipe_id of the update_recipe or delete_recipe served last.
TargetId == IF req.op = "update_recipe" THEN Val(req.args).recipe_id ELSE Val(req.args)

\* The row the request served last was aimed at exists / is that row.
TargetExists == \E r \in req.before.recipes : r.id = TargetId
Target == CHOOSE r \in req.before.recipes : r.id = TargetId

OwnerOrAdmin(recipe, user) == recipe.user_id = user.id \/ user.role = "admin"

\* C14: update_recipe and delete_recipe answer 404 when the recipe does not
\* exist; otherwise 403 when the caller is neither its owner nor an admin,
\* and then the recipe (as every stored row) is as before and still
\* exists; a request that changed or deleted a recipe was made by its
\* owner or by an admin.
C14_OwnerOrAdmin ==
    \A op \in {"update_recipe", "delete_recipe"} :
        BodyRun(op) =>
            /\ ~TargetExists => Refused(404, "Recipe not found")
            /\ TargetExists /\ ~OwnerOrAdmin(Target, Caller) =>
                  /\ Answered(403)
                  /\ DB = req.before
                  /\ Target \in recipes
            /\ recipes # req.before.recipes =>
                  TargetExists /\ OwnerOrAdmin(Target, Caller)

\* The standard user has asked to delete a recipe of the admin and was
\* answered 403; the recipe is still there.
C14_Witness ==
    /\ BodyRun("delete_recipe")
    /\ Val(req.args) = 6
    /\ Caller.id = 2 /\ Caller.role = "standard"
    /\ Refused(403, "Not authorized to delete this recipe")
    /\ \E r \in recipes : r.id = 6 /\ r.user_id = 1

\* C15: delete_user with the caller's own id as user_id is answered 400
\* "Cannot delete your own account"; the caller's row is still in the user
\* table and no stored row has changed.
C15_NoSelfDelete ==
    BodyRun("delete_user") /\ Val(req.args) = Caller.id =>
        /\ Refused(400, "Cannot delete your own account")
        /\ Caller \in users
        /\ DB = req.before

\* The admin has asked to delete the admin's own account and was answered
\* 400; the admin's row is still there.
C15_Witness ==
    /\ BodyRun("delete_user")
    /\ Val(req.args) = 1
    /\ req.access_token = Some(Token("access", Some(1), TRUE))
    /\ Refused(400, "Cannot delete your own account")
    /\ \E u \in users : u.id = 1 /\ u.role = "admin"

\* The body of the create_recipe served last.
Created == Val(req.args)

\* Its category_id is given and names no category / some id of its tag_ids
\* names no tag (of the tables the request found).
CategoryMissing ==
    /\ Created.category_id # None
    /\ \A c \in req.before.categories : c.id # Val(Created.category_id)
SomeTagMissing ==
    \E i \in 1..Len(Created.tag_ids) :
        \A tag \in req.before.tags : tag.id # Created.tag_ids[i]

\* What the claim says of the create_recipe served last: the two 400
\* answers exactly in their cases (the category is looked at first), no
\* recipe created in either, and otherwise one recipe more, owned by the
\* caller and linked to exactly the given category and tags.
CreateRecipeContract ==
    /\ Refused(400, "Category not found") <=> CategoryMissing
    /\ Refused(400, "One or more tags not found") <=> ~CategoryMissing /\ SomeTagMissing
    /\ Answered(400) => DB = req.before
    /\ ~CategoryMissing /\ ~SomeTagMissing =>
          /\ Answered(201)
          /\ req.before.recipes \subseteq recipes
          /\ \E recipe \in recipes :
                /\ recipes \ req.before.recipes = {recipe}
                /\ recipe.user_id = Caller.id
                /\ recipe.category_id = Created.category_id
                /\ recipe.tags = Range(Created.tag_ids)
                /\ Val(resp).body = recipe

\* The contract holds for every create_recipe whose tag_ids are pairwise
\* distinct.
CreateRecipeWithDistinctTagIds ==
    /\ BodyRun("create_recipe")
    /\ \A i, j \in 1..Len(Created.tag_ids) : Created.tag_ids[i] = Created.tag_ids[j] => i = j
    => CreateRecipeContract

\* C16: create_recipe answers 400 "Category not found" exactly when
\* category_id is given and names no category, 400 "One or more tags not
\* found" exactly when some id in tag_ids names no tag, creating no recipe
\* in both cases; otherwise it creates one recipe owned by the caller and
\* linked to exactly the given category and tags.
C16_CreateRecipe == BodyRun("create_recipe") => CreateRecipeContract

\* The body of the update_recipe served last, and the target row after it.
Update == Val(req.args).recipe_data
Updated == CHOOSE r \in recipes : r.id = TargetId

\* The fields a RecipeUpdate carries as the row stores them.
SameTypeFields ==
    {"description", "prep_time_minutes", "cook_time_minutes", "servings", "notes",
     "complexity", "special_equipment", "source_author", "source_url", "category_id"}

\* C17: after an update_recipe answered 200, every field the request does
\* not supply (null or absent) has its stored value and every supplied
\* field has the supplied value, an empty special_equipment list included;
\* id and owner of the recipe are as before and no other recipe has
\* changed.  An update_recipe answered otherwise has changed nothing.
C17_PartialUpdate ==
    BodyRun("update_recipe") =>
        /\ ~Answered(200) => DB = req.before
        /\ Answered(200) =>
              /\ TargetExists
              /\ \E r \in recipes : r.id = TargetId
              /\ recipes \ {Updated} = req.before.recipes \ {Target}
              /\ Updated.id = Target.id
              /\ Updated.user_id = Target.user_id
              /\ Updated.title =
                     IF Update.title = None THEN Target.title ELSE Val(Update.title)
              /\ \A f \in {"ingredients", "instructions"} :
                    Updated[f] = IF Update[f] = None THEN Target[f] ELSE Val(Update[f])
              /\ \A f \in SameTypeFields :
                    Updated[f] = IF Update[f] = None THEN Target[f] ELSE Update[f]
              /\ Updated.tags =
                     IF Update.tag_ids = None THEN Target.tags
                     ELSE Range(Val(Update.tag_ids))
              /\ Val(resp).body = Updated

\* The owner has given the recipe a new title and an empty
\* special_equipment list: both are stored, the description, the category
\* and the tags are the old ones.
C17_Witness ==
    /\ BodyRun("update_recipe") /\ Answered(200)
    /\ TargetId = 5 /\ Caller.id = 2
    /\ Update.title = Some("T") /\ Update.special_equipment = Some(<<>>)
    /\ Update.description = None
    /\ Updated.title = "T"
    /\ Updated.special_equipment = Some(<<>>)
    /\ Updated.description = Some("Test description")
    /\ Updated.category_id = Some(3)
    /\ Updated.tags = {4}
    /\ Updated.user_id = 2

--------------------------------------------------------------------------
(* Properties of the settings endpoints                                    *)

\* The fields of a SettingsUpdate with the key each is stored under, and
\* for an API key the provider it is validated for.
ApiKeyFields ==
    { [field |-> "openai_api_key", key |-> OPENAI_API_KEY, provider |-> "openai"],
      [field |-> "anthropic_api_key", key |-> ANTHROPIC_API_KEY, provider |-> "anthropic"],
      [field |-> "gemini_api_key", key |-> GEMINI_API_KEY, provider |-> "gemini"] }
SettingFields ==
    {[field |-> k.field, key |-> k.key] : k \in ApiKeyFields}
    \cup { [field |-> "ai_provider", key |-> AI_PROVIDER_KEY],
           [field |-> "openai_model", key |-> OPENAI_MODEL_KEY],
           [field |-> "anthropic_model", key |-> ANTHROPIC_MODEL_KEY],
           [field |-> "gemini_model", key |-> GEMINI_MODEL_KEY] }

\* The stored row of key (none or one).
StoredRow(rows, key) == {s \in rows : s.key = key}

\* The body of the update_settings served last and what validate_api_key
\* answered during it.
SettingsData == Val(req.args).settings_data
Accepted == Val(req.args).valid

\* C18: update_settings changes the stored row of a provider's API key only
\* if the request carries that key and validate_api_key accepted it, and
\* then the stored value is that key; a request carrying a key that
\* validate_api_key does not accept is answered 400 and the stored row of
\* that key (or its absence) is as before.
C18_ValidatedBeforeSaved ==
    BodyRun("update_settings") =>
        \A k \in ApiKeyFields :
            /\ StoredRow(settings, k.key) # StoredRow(req.before.settings, k.key) =>
                  /\ SettingsData[k.field] # None
                  /\ k.provider \in Accepted
                  /\ get_setting(DB, k.key) = SettingsData[k.field]
            /\ SettingsData[k.field] # None /\ k.provider \notin Accepted =>
                  /\ Answered(400)
                  /\ StoredRow(settings, k.key) = StoredRow(req.before.settings, k.key)

\* A request carried an OpenAI key that was accepted and an Anthropic key
\* that was not: 400 "Invalid ANTHROPIC API key", no Anthropic key is
\* stored.
C18_Witness ==
    /\ BodyRun("update_settings")
    /\ SettingsData.anthropic_api_key = Some("sk-anthropic")
    /\ "anthropic" \notin Accepted
    /\ "openai" \in Accepted
    /\ Refused(400, "Invalid ANTHROPIC API key")
    /\ get_setting(DB, ANTHROPIC_API_KEY) = None
    /\ get_setting(req.before, ANTHROPIC_API_KEY) = None

--------------------------------------------------------------------------
(* Properties of the URL import                                            *)

\* What the page's server and the AI provider's API had to answer during
\* the import_from_url served last, and the collaborators it has asked.
Fetched == Val(req.args).fetched
AIAnswer == Val(req.args).ai
Calls == Val(req.args).calls
Called(f) == \E i \in 1..Len(Calls) : Calls[i] = f

\* The fetch has succeeded; the page then has no schema.org Recipe, one
\* that maps, one whose mapping raises ValueError.
FetchSucceeded == Fetched.raised = None
SchemaRecipe == Val(Fetched.url_content).schema_recipe
Mapping == map_schema_org_to_extraction(Val(SchemaRecipe))
NoSchemaRecipe == FetchSucceeded /\ SchemaRecipe = None
MapsWithoutError == FetchSucceeded /\ SchemaRecipe # None /\ Mapping.raised = None
MappingRaisesValueError ==
    /\ FetchSucceeded /\ SchemaRecipe # None
    /\ Mapping.raised # None /\ Val(Mapping.raised).type = "ValueError"

\* The settings of d name a provider and hold an API key for it.
AIConfigured(d) ==
    \E k \in ApiKeyFields :
        /\ get_setting(d, AI_PROVIDER_KEY) = Some(k.provider)
        /\ get_setting(d, k.key) # None

C20_FallBackWitness ==
    /\ BodyRun("import_from_url")
    /\ MappingRaisesValueError
    /\ AIConfigured(req.before)
    /\ Answered(422)
    /\ Calls = <<"fetch_url_content", "map_schema_org_to_extraction", "get_ai_provider",
                 "extract_recipe_from_text", "log_usage">>

--------------------------------------------------------------------------
(* Properties of with_retry                                                *)

\* The coroutine with_retry, the outcomes of the calls of operation it
\* has made so far, and the error of its k-th call.
Retry == tasks[1]
OperationCalls == Len(Retry.outcomes)
ErrorOf(k) == Val(Retry.outcomes[k].raised)

\* with_retry has returned or raised.
RetryOver == Retry.pc \in {"returned", "raised"}

\* What holds of with_retry at every moment.
WithRetryContract ==
    /\ OperationCalls <= Retry.max_retries + 1 \/ OperationCalls = 0
    /\ OperationCalls = 0 /\ RetryOver => Retry.max_retries < 0
    /\ \A k \in 1..OperationCalls :
          /\ Retry.outcomes[k].raised = None =>
                /\ k = OperationCalls
                /\ Retry.pc = "returned"
                /\ Retry.returned = Retry.outcomes[k].value
          /\ Retry.outcomes[k].raised # None /\ ~is_transient_error(ErrorOf(k)) =>
                /\ k = OperationCalls
                /\ Retry.pc = "raised"
                /\ Retry.raised = Some(ErrorOf(k))
          /\ k < OperationCalls =>
                /\ Retry.outcomes[k].raised # None
                /\ is_transient_error(ErrorOf(k))
                /\ k - 1 < Retry.max_retries
          /\ Retry.outcomes[k].raised # None /\ k - 1 >= Retry.max_retries =>
                /\ k = OperationCalls
                /\ Retry.pc = "raised"
                /\ Retry.raised = Some(ErrorOf(k))
          /\ /\ Retry.outcomes[k].raised # None
             /\ is_transient_error(ErrorOf(k))
             /\ ErrorOf(k).type \in {"AIExtractionError", "RuntimeError"}
             /\ k - 1 < Retry.max_retries
             => Retry.pc # "raised" \/ k < OperationCalls
    /\ Retry.pc = "raised" /\ OperationCalls > 0 =>
          Retry.raised = Retry.outcomes[OperationCalls].raised
    /\ Retry.pc = "returned" => Retry.outcomes[OperationCalls].raised = None

\* C21: with_retry comes to an end, having called operation at most
\* max_retries + 1 times.  A result of operation is returned at once, no
\* call follows it.  An error that is not transient is raised as it is
\* after the call that raised it, no call follows it.  Every call but the
\* last has raised a transient error while fewer than max_retries retries
\* had been made; a transient error of the call number max_retries + 1 is
\* raised as it is.
C21_WithRetry == []WithRetryContract /\ <>RetryOver

\* With max_retries = 2, operation has raised three transient errors, the
\* last one different from the first: with_retry has raised the last one
\* after three calls.
C21_Witness ==
    /\ Retry.max_retries = 2
    /\ Retry.pc = "raised"
    /\ OperationCalls = 3
    /\ ErrorOf(1) = Exception("AIExtractionError", "Connection reset by peer")
    /\ ErrorOf(3) = Exception("RuntimeError", "Error code: 503")
    /\ Retry.raised = Some(ErrorOf(3))

--------------------------------------------------------------------------
(* Properties of a session                                                 *)

\* The request served last was a logout that was answered 200.
LoggedOut == BodyRun("logout") /\ Answered(200)

\* The refresh token issued together with the access token access_token.
RefreshTokenOf(access_token) == Some(Token("refresh", Val(access_token).sub, TRUE))

\* Between two states: a request has been served.
RequestServed == served' = served + 1

\* C22: serving a logout leaves every table as it is, so every token is
\* accepted or refused after it as before it.  The request after a logout
\* that was answered 200, when it is a get_current_user_info with the
\* access token the logout was made with, is answered 200 with that
\* token's user, and when it is a refresh with the refresh token of the
\* same user, is answered 200 with a new access token of that user.
C22_NoRevocation ==
    [][ /\ RequestServed /\ req'.op = "logout" =>
              /\ DB' = DB
              /\ \A token \in ApiCookies :
                    get_current_user(token, users') = get_current_user(token, users)
        /\ /\ LoggedOut /\ RequestServed
           /\ req'.op = "get_current_user_info"
           /\ req'.access_token = req.access_token
           => resp' = Response(200, "", Val(get_current_user(req.access_token, users).user))
        /\ /\ LoggedOut /\ RequestServed
           /\ req'.op = "refresh_token"
           /\ req'.args = Some(RefreshTokenOf(req.access_token))
           => /\ Val(resp').status_code = 200
              /\ Val(resp').body.set_cookie.access_token =
                     create_access_token(Val(Val(req.access_token).sub),
                                         RoleOf(req.access_token, users))
      ]_vars

\* The admin has logged out and a further request can be served: the
\* tables are as before the logout, the admin's access token still names
\* the admin's row and the admin's refresh token can be presented.
C22_Witness ==
    /\ LoggedOut
    /\ served < MaxRequests
    /\ Val(req.access_token) = Token("access", Some(1), TRUE)
    /\ DB = req.before
    /\ \E u \in users :
          /\ u.id = 1
          /\ get_current_user(req.access_token, users) = [raised |-> None, user |-> Some(u)]
    /\ RefreshTokenOf(req.access_token) \in RefreshCookies

--------------------------------------------------------------------------
(* Properties of the import's counters                                     *)

\* The four counters a record is counted in, and their sum in result.
OutcomeCounters == {"created", "skipped", "replaced", "errors"}
Counted(result) == result.created + result.skipped + result.replaced + result.errors

\* The import in progress or over: the records it has gone through.
Processed == imp.i - 1

\* At every moment of an import the four counters add up to the number of
\* records gone through and error_details has one entry for each error;
\* when it has returned, all records it was to go through are counted,
\* and they are all records of the file when no titles were selected.
ImportAccounting ==
    imp.pc = "importing" \/ ImportAnswered =>
        /\ Counted(imp.result) = Processed
        /\ Len(imp.result.error_details) = imp.result.errors
        /\ imp.pc = "done" =>
              /\ Processed = Len(imp.recipes_to_import)
              /\ Val(resp).body = imp.result
              /\ imp.result.total_in_file = Len(imp.backup_data.recipes)
              /\ imp.selected_titles = None =>
                    Counted(imp.result) = imp.result.total_in_file

\* Going through one record adds one to exactly one of the four counters
\* and leaves the other three as they are.
CountedOnce ==
    RecordStep =>
        \E c \in OutcomeCounters :
           /\ imp'.result[c] = imp.result[c] + 1
           /\ \A o \in OutcomeCounters \ {c} : imp'.result[o] = imp.result[o]

\* C23: when import_recipes returns, created + skipped + replaced + errors
\* is the number of records it went through (total_in_file when no titles
\* were selected), each record having added one to exactly one of the
\* four, and error_details has as many entries as errors counts, for
\* every conflict strategy and every file.
C23_ImportAccounting == []ImportAccounting /\ [][CountedOnce]_vars

\* An import of a file of two records has returned with one record
\* replaced and one counted as an error.
C23_Witness ==
    /\ ImportAnswered
    /\ imp.conflict_strategy = "replace"
    /\ imp.result.total_in_file = 2
    /\ imp.result.replaced = 1
    /\ imp.result.errors = 1
    /\ Len(imp.result.error_details) = 1

--------------------------------------------------------------------------
(* Properties of the recipe titles across an import                        *)

\* C24: if no two recipes had the same title when an import request
\* arrived, no two recipes have the same title after any record of it and
\* when it has returned, whatever the conflict strategy, also when records
\* of the file share a title.
C24_NoDuplicateTitles ==
    /\ req.op = "import_recipes"
    /\ TitlesDistinct(req.before.recipes)
    => /\ TitlesDistinct(recipes)
       /\ Cardinality(TitlesOf(recipes)) = Cardinality(recipes)

\* Two records titled "A" were imported with the strategy rename into a
\* table holding "A" and "A (3)": they are stored as "A (2)" and "A (4)".
C24_Witness ==
    /\ ImportAnswered
    /\ imp.conflict_strategy = "rename"
    /\ TitlesOf(req.before.recipes) = {"A", "A (3)"}
    /\ Len(imp.recipes_to_import) = 2
    /\ imp.recipes_to_import[1].title = "A"
    /\ imp.recipes_to_import[2].title = "A"
    /\ imp.result.created = 2
    /\ TitlesOf(recipes) = {"A", "A (2)", "A (3)", "A (4)"}
    /\ Cardinality(recipes) = 4

--------------------------------------------------------------------------
(* Properties of a backup restored on another instance                     *)

\* The instance the file was exported from and the file.
Source == tasks[1].source
ExportFile == Val(tasks[1].file)

\* What a round trip is to keep of a recipe row: everything but its id,
\* its owner and its keys to category and tags, which become names.
Kept(d, r) == [RecipeOutcome(d, r) EXCEPT !.user_id = 0]

\* C25: when the export of an instance whose recipe titles are pairwise
\* distinct has been imported into an instance without recipes, under any
\* conflict strategy, created is the file's recipe_count and the number of
\* recipes exported, errors, skipped and replaced are 0, and for every
\* exported recipe the instance holds exactly one recipe of its title,
\* which has the same data, the same category name and the same tag
\* names and belongs to the importing user; it holds no other recipe.
C25_RoundTrip ==
    ImportAnswered /\ req.before.recipes = {} /\ TitlesDistinct(Source.recipes) =>
        /\ imp.result.created = ExportFile.metadata.recipe_count
        /\ imp.result.created = Cardinality(Source.recipes)
        /\ imp.result.errors = 0
        /\ imp.result.skipped = 0
        /\ imp.result.replaced = 0
        /\ imp.result.error_details = <<>>
        /\ Cardinality(recipes) = Cardinality(Source.recipes)
        /\ \A s \in Source.recipes :
              /\ Cardinality({r \in recipes : r.title = s.title}) = 1
              /\ \A r \in recipes :
                    r.title = s.title =>
                        /\ Kept(DB, r) = Kept(Source, s)
                        /\ r.user_id = imp.importing_user_id

\* "A (2)" with a category and two tags and a bare "A" were exported and
\* imported with the strategy rename into an instance that had a category
\* of the same name under another id: both are there under their titles,
\* "A (2)" in that category, and the tag the instance lacked was created.
C25_Witness ==
    /\ ImportAnswered
    /\ imp.conflict_strategy = "rename"
    /\ TitlesOf(Source.recipes) = {"A", "A (2)"}
    /\ req.before.categories # {}
    /\ imp.result.created = 2
    /\ imp.result.tags_created = 1
    /\ imp.result.categories_created = 0
    /\ TitlesOf(recipes) = {"A", "A (2)"}
    /\ \E r \in recipes :
          /\ r.title = "A (2)"
          /\ r.category_id = Some(9)
          /\ TagNamesOf(tags, r) = {"sweet", "quick"}
          /\ r.ingredients = StoredContent.ingredients
          /\ r.user_id = 1
    /\ \E r \in recipes : r.title = "A" /\ r.ingredients = <<>> /\ r.complexity = None

---------------------------------------------------------------------------
(* The accounts under registration and user administration                 *)

NextAccounts == Register \/ CreateUser \/ UpdateUser \/ DeleteUser

SpecAccounts == InitApi /\ [][NextAccounts]_vars

Admins == {u \in users : u.role = "admin"}

\* C26: once a first user has been registered, the users table always
\* holds at least one user whose role is admin, whatever register, create_user,
\* update_user and delete_user requests are made.
C26_AlwaysAnAdmin == users # {} => Admins # {}

\* The only admin has changed their own role to standard with
\* PUT /api/users/{user_id}: the request was answered 200 and no admin is
\* left.
C26_SelfDemoted ==
    /\ req.op = "update_user"
    /\ Val(resp).status_code = 200
    /\ users # {}
    /\ Admins = {}

\* register, create_user and delete_user never leave the table without an
\* admin: the last admin is only ever lost to an update_user that sets a role.
AdminLostOnlyByUpdateUser ==
    [][(Admins # {} /\ Admins' = {}) =>
           /\ req'.op = "update_user"
           /\ Val(req'.args).user_data.role = Some("standard")]_vars

---------------------------------------------------------------------------
(* Properties of the role an admin-only request is decided by              *)

\* The role claim of the access token the request served last was made with.
RoleClaim == Val(req.access_token).role

\* The request served last was made with an access token that a login or
\* refresh has issued to a user who is still in the table.
WithIssuedToken ==
    /\ ValidAccessToken(req.access_token, req.before.users)
    /\ "role" \in DOMAIN Val(req.access_token)

\* The admin dependency has let the request served last through.
AdminAccepted ==
    resp = None \/ (~Answered(401) /\ ~Refused(403, "Admin access required"))

\* C27: an admin-only request made with an issued access token is decided by
\* the role stored in the caller's row when it is served, not by the token's
\* role claim: it is refused with 403 "Admin access required" when the stored
\* role is not admin, also when the claim says admin, and let through when
\* the stored role is admin, also when the claim says standard.
C27_StoredRoleDecides ==
    (req.op \in AdminOperations /\ WithIssuedToken) =>
        IF RoleOf(req.access_token, req.before.users) = "admin"
        THEN AdminAccepted
        ELSE Refused(403, "Admin access required") /\ BodyNotRun

\* A token issued to an admin has been presented on an admin-only request
\* after the admin's role was changed to standard, and was answered 403.
C27_Witness ==
    /\ req.op \in AdminOperations
    /\ WithIssuedToken
    /\ RoleClaim = "admin"
    /\ RoleOf(req.access_token, req.before.users) = "standard"
    /\ Refused(403, "Admin access required")

\* A token issued to a standard user has been presented on delete_user after
\* the user was promoted to admin: the other user's row was deleted.
C27_PromotedWitness ==
    /\ req.op = "delete_user"
    /\ WithIssuedToken
    /\ RoleClaim = "standard"
    /\ RoleOf(req.access_token, req.before.users) = "admin"
    /\ Answered(204)
    /\ Cardinality(users) = Cardinality(req.before.users) - 1

---------------------------------------------------------------------------
(* Properties of registrations served side by side                         *)

\* C28: whatever way register requests on an empty table are interleaved,
\* exactly one of the users they create is admin and the others are
\* standard.
C28_OneAdminByRegistration == users # {} => Cardinality(Admins) = 1

\* Two register requests have both counted the users while the table was
\* empty and have both been answered 201 with the role admin.
C28_TwoAdmins ==
    /\ Cardinality(Admins) = 2
    /\ \E i, k \in 1..Len(tasks) :
          /\ i # k
          /\ \A n \in {i, k} :
                /\ tasks[n].pc = "done"
                /\ tasks[n].user_count = Some(0)
                /\ tasks[n].response =
                       Response(201, "", [message |-> "User registered successfully",
                                          role |-> "admin"])

---------------------------------------------------------------------------
(* Properties of an update_settings that is rejected                       *)

\* C29: an update_settings answered 400 because one of its API keys failed
\* validation has changed no setting: the settings table is as before the
\* request.
C29_AllOrNothing ==
    (BodyRun("update_settings") /\ Answered(400)) => settings = req.before.settings

\* A request carried ai_provider anthropic, an OpenAI key that was accepted
\* and an Anthropic key that was not: it was answered 400 "Invalid ANTHROPIC
\* API key", and the provider and the OpenAI key it carried are stored.
C29_PartlySaved ==
    /\ BodyRun("update_settings")
    /\ Refused(400, "Invalid ANTHROPIC API key")
    /\ get_setting(req.before, AI_PROVIDER_KEY) # Some("anthropic")
    /\ get_setting(DB, AI_PROVIDER_KEY) = Some("anthropic")
    /\ get_setting(DB, OPENAI_API_KEY) = Some("sk-new")
    /\ get_setting(DB, ANTHROPIC_API_KEY) = None

\* Only the settings that precede the rejected key in the handler's order
\* are changed by a rejected update_settings: ai_provider and the API keys
\* of providers handled before it.
RejectedChangesOnlyEarlierSettings ==
    (BodyRun("update_settings") /\ Answered(400)) =>
        \A row \in (settings \ req.before.settings) \cup (req.before.settings \ settings) :
            row.key \in {AI_PROVIDER_KEY, OPENAI_API_KEY, ANTHROPIC_API_KEY}

---------------------------------------------------------------------------
(* Properties of the references between the tables                         *)

\* The rows of the association table recipe_tags: the links the recipe rows
\* hold.
recipe_tags ==
    UNION {{[recipe_id |-> r.id, tag_id |-> t] : t \in r.tags} : r \in recipes}

ReferentialIntegrity ==
    /\ \A r \in recipes : \E u \in users : u.id = r.user_id
    /\ \A r \in recipes :
          r.category_id = None \/ \E c \in categories : Some(c.id) = r.category_id
    /\ \A link \in recipe_tags :
          /\ \E r \in recipes : r.id = link.recipe_id
          /\ \E t \in tags : t.id = link.tag_id

\* The delete_user served last has removed the recipes of the deleted user
\* and no other.
UserDeletedWithRecipes ==
    recipes = {r \in req.before.recipes : r.user_id # Val(req.args)}

\* The delete_category served last has kept every recipe: those of the
\* category are without category, the others are as they were.
CategoryDeletedKeepingRecipes ==
    /\ {r.id : r \in recipes} = {r.id : r \in req.before.recipes}
    /\ \A b \in req.before.recipes :
          \E r \in recipes :
              /\ r.id = b.id
              /\ r = [b EXCEPT !.category_id =
                                    IF @ = Some(Val(req.args)) THEN None ELSE @]

\* C30: in every state each recipe's user_id names a user, its category_id
\* is null or names a category, and each recipe_tags link names a recipe and
\* a tag; a delete_user deletes the recipes of the user, a delete_category
\* keeps the recipes of the category and sets their category_id to null.
C30_ReferentialIntegrity ==
    /\ ReferentialIntegrity
    /\ (BodyRun("delete_user") /\ Answered(204)) => UserDeletedWithRecipes
    /\ (BodyRun("delete_category") /\ Answered(204)) => CategoryDeletedKeepingRecipes

\* The standard user, owner of a recipe with a category and a tag, has been
\* deleted: the recipe is gone, the other user's recipe is still there.
C30_Witness ==
    /\ BodyRun("delete_user")
    /\ Answered(204)
    /\ \E r \in req.before.recipes : r.user_id = Val(req.args) /\ r.tags # {}
    /\ \E r \in req.before.recipes : r.user_id # Val(req.args)
    /\ recipes # {}
    /\ Cardinality(recipes) < Cardinality(req.before.recipes)

\* A category with a recipe has been deleted: the recipe is there without
\* category.
C30_CategoryWitness ==
    /\ BodyRun("delete_category")
    /\ Answered(204)
    /\ \E b \in req.before.recipes :
          /\ b.category_id = Some(Val(req.args))
          /\ \E r \in recipes : r.id = b.id /\ r.category_id = None

\* A tag linked to a recipe has been deleted: the recipe is there without
\* the link.
C30_TagWitness ==
    /\ BodyRun("delete_tag")
    /\ Answered(204)
    /\ \E b \in req.before.recipes :
          /\ Val(req.args) \in b.tags
          /\ \E r \in recipes : r.id = b.id /\ Val(req.args) \notin r.tags

====
